---- MODULE Spec2Model ----
(***************************************************************************)
(* Netcode game: the authoritative session store (game.rs), the server's   *)
(* datagram handlers (bin/server.rs) and the client's prediction engine    *)
(* (prediction.rs, input.rs).                                              *)
(*                                                                         *)
(* Server time (Instant) is counted in whole seconds, the client's          *)
(* get_time() (an f64 of seconds) in units of 2^-29 s, the unit its f32     *)
(* casts are exact in, and the Instant of its network layer in whole        *)
(* milliseconds.                                                           *)
(***************************************************************************)
EXTENDS Integers, Sequences, FiniteSets, TLC

(* ------------------------------ constants ------------------------------ *)

BOARD_WIDTH == 1024
BOARD_HEIGHT == 768
TOOL_BAR_HEIGHT == 40
PLAYER_SIZE == 20
PLAYER_SPEED == 5
TIMEOUT == 5
MAX_POSITION_HISTORY == 60
I32_MAX == 2147483647
I32_MIN == -I32_MAX - 1

(* ------------------------------- bounds -------------------------------- *)

\* the server clock advances at most MaxTicks times
MaxTicks == 2
\* Uuid::new_v4 is asked for at most MaxIds ids
MaxIds == 2
\* the length of a pause between the two clock readings of
\* Instant::now().elapsed(), in milliseconds
PauseMillis == 12
\* the live sessions' position histories hold at most this many entries
\* written after such a pause
MaxPauses == 1
\* sessions are opened and inputs applied while the live sessions' position
\* histories hold fewer than MaxEntries entries in total
MaxEntries == 3
\* the client issues at most this many inputs
MaxSequence == 2
\* predicted-history entries held by the client when a key adds one more
MaxPredicted == 2
\* predicted-history entries held by the client after a reapply
MaxReapplied == 4
\* inputs a client issues while the server follows it move by move
MaxMoves == 3
\* the client clock advances at most this many times
MaxClientTicks == 3
\* in the frame loop the client issues at most this many inputs
MaxBurst == 8
\* predicted-history entries held in the frame loop
MaxReplayed == 8
\* the interpolation buffer is followed for sequences up to MaxRemoteSequence
\* and frames up to MaxFrames
MaxRemoteSequence == 3
MaxFrames == 4
\* the network layer is followed for MaxWire datagrams sent, MaxInbox datagrams
\* unread, MaxDelayed packets queued, MaxNetTicks steps of its clock and
\* MaxNetInputs inputs
MaxWire == 2
MaxInbox == 2
MaxDelayed == 2
MaxNetTicks == 3
MaxNetInputs == 2
\* the delay queue is followed for MaxDelayTicks steps of the clock
MaxDelayTicks == 6

\* the clock is read every TimeStep seconds
TimeStep == TIMEOUT

Addrs == {"a1", "a2"}
NoAddr == "none"
Ids == 1..MaxIds
NoId == 0
\* the address of the client that is followed and the address of another
\* player's client
MoveAddr == "a1"
RemoteAddr == "a2"
Directions == {"Up", "Down", "Left", "Right"}
NoDir == "none"
Seqs == {0, 1}

\* what the random generator of connect_player may return (game.rs:50-60):
\* the two ends of the half-open spawn ranges
\* PLAYER_SIZE..BOARD_WIDTH-PLAYER_SIZE and
\* PLAYER_SIZE..BOARD_HEIGHT-PLAYER_SIZE-TOOL_BAR_HEIGHT, each with one entry
\* of the palette packed as connect_player packs it (RED 0xff1717, GREEN 0x17ff17)
RandomDraws ==
    { [pos |-> [x |-> PLAYER_SIZE, y |-> PLAYER_SIZE], color |-> 16717591],
      [pos |-> [x |-> BOARD_WIDTH - PLAYER_SIZE - 1,
                y |-> BOARD_HEIGHT - PLAYER_SIZE - TOOL_BAR_HEIGHT - 1],
       color |-> 1572631] }

\* the inputs one session receives in the run that fills its history, and how
\* many of the first of them are free: they go in either direction of the
\* address and may follow a pause
MaxHistoryInputs == 62
FreeInputs == 1
\* while one session's history fills, every other live session's history holds
\* at most this many entries
MaxOtherEntries == 1
\* with the server's tasks followed step by step, inputs are received while the
\* live sessions' position histories hold fewer than MaxLockEntries entries
MaxLockEntries == 2

(* ------------------------------ variables ------------------------------ *)

VARIABLES
    players,          \* Game.players: addr -> PlayerState
    id_to_addr,       \* Game.id_to_addr
    addr_to_id,       \* Game.addr_to_id
    last_processed,   \* Game.last_processed: id -> sequence
    panicked,         \* an unwrap() on None was executed
    now,              \* the server's monotonic clock (Instant::now()), seconds
    issued,           \* ids Uuid::new_v4 has returned so far
    removed,          \* addr -> the session last removed for it (id, color, time)
    call,             \* the last operation invoked and its arguments
    ret,              \* the value it returned (NoId for unit)
    sent,             \* datagrams handed to the server's socket since the lock was last taken
    lock,             \* the task that holds the Mutex<Game> ("none": it is free)
    tasks,            \* where the receive loop and the broadcast task stand, with their locals
    next_sequence,            \* PredictionState.next_sequence
    pending_inputs,           \* PredictionState.pending_inputs
    position_history,         \* PredictionState.position_history
    last_confirmed_sequence,  \* PredictionState.last_confirmed_sequence
    last_confirmed_position,  \* PredictionState.last_confirmed_position
    last_reconciliation_time, \* PredictionState.last_reconciliation_time
    my_pos,                   \* the client's displayed position of its own entity
    my_id,                    \* the client's my_id (NoId: None)
    client_time,              \* the last reading of the client's clock (get_time()), in units of 2^-29 s
    interpolation,            \* interpolated_positions[RemoteId]; the new state when there is no entry
    frame_time,               \* current_time as f32 of client.rs:46, the frame's first reading, in units of 2^-29 s
    delay_ms,                 \* NetworkClient.delay_ms
    packet_loss,              \* NetworkClient.packet_loss
    delayed_packets,          \* NetworkClient.delayed_packets
    wire,                     \* the datagrams a client's socket.send_to was called with, oldest
                              \* first; where the server is followed, those it has not received
    inbox,                    \* the datagrams sent to the client that it has not read, oldest
                              \* first: on their way or waiting at its socket
    instant_now               \* Instant::now() as the client's network layer reads it, milliseconds

gameVars == <<players, id_to_addr, addr_to_id, last_processed, panicked>>
taskVars == <<lock, tasks>>
serverVars == <<players, id_to_addr, addr_to_id, last_processed, panicked, now,
                issued, removed, sent, taskVars>>
predictionVars == <<next_sequence, pending_inputs, position_history,
                    last_confirmed_sequence, last_confirmed_position,
                    last_reconciliation_time>>
clientVars == <<predictionVars, my_pos, client_time, my_id>>
interpolationVars == <<interpolation, frame_time>>
networkVars == <<delay_ms, packet_loss, delayed_packets, wire, inbox, instant_now>>
remoteVars == <<interpolationVars, networkVars>>
vars == <<serverVars, call, ret, clientVars, remoteVars>>

(* ------------------------------- helpers ------------------------------- *)

Max(a, b) == IF a >= b THEN a ELSE b
Min(a, b) == IF a <= b THEN a ELSE b

EmptyMap == [k \in {} |-> 0]
MapInsert(m, k, v) == [x \in (DOMAIN m) \cup {k} |-> IF x = k THEN v ELSE m[x]]
MapRemove(m, k) == [x \in (DOMAIN m) \ {k} |-> m[x]]

\* i32::saturating_sub / saturating_add
saturating_sub(a, b) == Max(a - b, I32_MIN)
saturating_add(a, b) == Min(a + b, I32_MAX)

\* Instant::now().elapsed().as_millis(): the time elapsed since an Instant
\* taken in the same expression, in whole milliseconds.  The clock is read
\* twice: the result is 0 unless the thread is paused between the two
\* readings, and then it is the length of the pause.
InstantNowElapsedMillis == {0, PauseMillis}

(* ----------------------------- game.rs: Game ---------------------------- *)

\* Game::new
Game_new ==
    [players |-> EmptyMap, id_to_addr |-> EmptyMap, addr_to_id |-> EmptyMap,
     last_processed |-> EmptyMap, panicked |-> FALSE]

\* the Game value held in the variables
TheGame ==
    [players |-> players, id_to_addr |-> id_to_addr, addr_to_id |-> addr_to_id,
     last_processed |-> last_processed, panicked |-> panicked]

\* variant of ServerMove without the .max/.min clamps
MoveNoClamp(pos, dir) ==
    CASE dir = "Up"    -> [pos EXCEPT !.y = saturating_sub(pos.y, PLAYER_SPEED)]
      [] dir = "Down"  -> [pos EXCEPT !.y = saturating_add(pos.y, PLAYER_SPEED)]
      [] dir = "Left"  -> [pos EXCEPT !.x = saturating_sub(pos.x, PLAYER_SPEED)]
      [] dir = "Right" -> [pos EXCEPT !.x = saturating_add(pos.x, PLAYER_SPEED)]

\* the match on input.dir of handle_input (game.rs:99-104)
ServerMove(pos, dir) ==
    CASE dir = "Up"    -> [pos EXCEPT !.y = Max(saturating_sub(pos.y, PLAYER_SPEED), PLAYER_SIZE)]
      [] dir = "Down"  -> [pos EXCEPT !.y = Min(saturating_add(pos.y, PLAYER_SPEED),
                                                 BOARD_HEIGHT - PLAYER_SIZE - TOOL_BAR_HEIGHT)]
      [] dir = "Left"  -> [pos EXCEPT !.x = Max(saturating_sub(pos.x, PLAYER_SPEED), PLAYER_SIZE)]
      [] dir = "Right" -> [pos EXCEPT !.x = Min(saturating_add(pos.x, PLAYER_SPEED),
                                                 BOARD_WIDTH - PLAYER_SIZE)]

\* Uuid::new_v4 (game.rs:63): a version-4 UUID, taken to be universally unique.
\* Ids are opaque and only compared for equality, so the id returned is fixed
\* to the least one not returned before; with none left it returns nothing.
LeastOf(S) == IF S = {} THEN {} ELSE {CHOOSE i \in S : \A j \in S : i <= j}

Uuid_new_v4 == LeastOf(Ids \ issued)

\* variant of connect_player without the early return for a connected address
connect_player_Recreate(g, addr, rnd, t) ==
    LET initial_position == rnd.pos
        history ==
            << [position |-> initial_position, timestamp |-> rnd.elapsed] >>
        id == IF addr \in DOMAIN g.addr_to_id THEN g.addr_to_id[addr] ELSE rnd.id
    IN  [g |-> [g EXCEPT
                  !.id_to_addr = MapInsert(g.id_to_addr, id, addr),
                  !.addr_to_id = MapInsert(g.addr_to_id, addr, id),
                  !.players = MapInsert(g.players, addr,
                                 [position |-> initial_position,
                                  color |-> rnd.color,
                                  last_active |-> t,
                                  position_history |-> history])],
         ret |-> id]

\* variant of connect_player that gives an address back the id of the session
\* last removed for it
connect_player_Revive(g, addr, rnd, t) ==
    LET initial_position == rnd.pos
        history ==
            << [position |-> initial_position, timestamp |-> rnd.elapsed] >>
        id == IF removed[addr].id # NoId THEN removed[addr].id ELSE rnd.id
    IN  IF addr \in DOMAIN g.players
        THEN [g |-> g, ret |-> g.addr_to_id[addr]]
        ELSE [g |-> [g EXCEPT
                       !.id_to_addr = MapInsert(g.id_to_addr, id, addr),
                       !.addr_to_id = MapInsert(g.addr_to_id, addr, id),
                       !.players = MapInsert(g.players, addr,
                                      [position |-> initial_position,
                                       color |-> rnd.color,
                                       last_active |-> t,
                                       position_history |-> history])],
              ret |-> id]

\* Game::connect_player; rnd carries what the random generator, Uuid::new_v4
\* and Instant::now().elapsed().as_millis() return, t is Instant::now()
connect_player(g, addr, rnd, t) ==
    IF addr \in DOMAIN g.players
    THEN IF addr \in DOMAIN g.addr_to_id
         THEN [g |-> g, ret |-> g.addr_to_id[addr]]
         ELSE [g |-> [g EXCEPT !.panicked = TRUE], ret |-> NoId]
    ELSE LET initial_position == rnd.pos
             history ==
                 << [position |-> initial_position, timestamp |-> rnd.elapsed] >>
         IN  [g |-> [g EXCEPT
                       !.id_to_addr = MapInsert(g.id_to_addr, rnd.id, addr),
                       !.addr_to_id = MapInsert(g.addr_to_id, addr, rnd.id),
                       !.players = MapInsert(g.players, addr,
                                      [position |-> initial_position,
                                       color |-> rnd.color,
                                       last_active |-> t,
                                       position_history |-> history])],
              ret |-> rnd.id]

\* variant of handle_input that creates a session for an unknown address
handle_input_AutoConnect(g, addr, input, t, elapsed) ==
    LET position == ServerMove([x |-> PLAYER_SIZE, y |-> PLAYER_SIZE], input.dir)
        fresh == [position |-> position, color |-> 0, last_active |-> t,
                  position_history |->
                      << [position |-> position, timestamp |-> elapsed] >>]
    IN  IF addr \in DOMAIN g.players
        THEN [g EXCEPT !.players = [g.players EXCEPT ![addr].last_active = t]]
        ELSE [g EXCEPT !.players = MapInsert(g.players, addr, fresh)]

\* variant of handle_input that does not record input.sequence
handle_input_NoSeq(g, addr, input, t, elapsed) ==
    IF addr \in DOMAIN g.players
    THEN LET player == g.players[addr]
             position == ServerMove(player.position, input.dir)
             pushed == Append(player.position_history,
                              [position |-> position, timestamp |-> elapsed])
             history == IF Len(pushed) > MAX_POSITION_HISTORY THEN Tail(pushed) ELSE pushed
         IN  [g EXCEPT
                !.players = [g.players EXCEPT ![addr] =
                                [player EXCEPT !.last_active = t,
                                               !.position = position,
                                               !.position_history = history]]]
    ELSE g

\* variant of handle_input that never removes the oldest history entry
handle_input_Unbounded(g, addr, input, t, elapsed) ==
    IF addr \in DOMAIN g.players
    THEN LET player == g.players[addr]
             position == ServerMove(player.position, input.dir)
             history == Append(player.position_history,
                               [position |-> position, timestamp |-> elapsed])
         IN  [g EXCEPT
                !.last_processed =
                    IF addr \in DOMAIN g.addr_to_id
                    THEN MapInsert(g.last_processed, g.addr_to_id[addr], input.sequence)
                    ELSE g.last_processed,
                !.players = [g.players EXCEPT ![addr] =
                                [player EXCEPT !.last_active = t,
                                               !.position = position,
                                               !.position_history = history]]]
    ELSE g

\* Game::handle_input; t is Instant::now() and elapsed what
\* Instant::now().elapsed().as_millis() returns
handle_input(g, addr, input, t, elapsed) ==
    IF addr \in DOMAIN g.players
    THEN LET player == g.players[addr]
             position == ServerMove(player.position, input.dir)
             pushed == Append(player.position_history,
                              [position |-> position, timestamp |-> elapsed])
             history == IF Len(pushed) > MAX_POSITION_HISTORY THEN Tail(pushed) ELSE pushed
         IN  [g EXCEPT
                !.last_processed =
                    IF addr \in DOMAIN g.addr_to_id
                    THEN MapInsert(g.last_processed, g.addr_to_id[addr], input.sequence)
                    ELSE g.last_processed,
                !.players = [g.players EXCEPT ![addr] =
                                [player EXCEPT !.last_active = t,
                                               !.position = position,
                                               !.position_history = history]]]
    ELSE g

\* variant of disconnect_player that leaves the last_processed entry behind
disconnect_player_KeepsLastProcessed(g, addr) ==
    [g EXCEPT
       !.addr_to_id = MapRemove(g.addr_to_id, addr),
       !.id_to_addr = IF addr \in DOMAIN g.addr_to_id
                      THEN MapRemove(g.id_to_addr, g.addr_to_id[addr])
                      ELSE g.id_to_addr,
       !.players = MapRemove(g.players, addr)]

\* variant of disconnect_player that leaves the id_to_addr entry behind
disconnect_player_KeepsIdToAddr(g, addr) ==
    [g EXCEPT
       !.addr_to_id = MapRemove(g.addr_to_id, addr),
       !.last_processed = IF addr \in DOMAIN g.addr_to_id
                          THEN MapRemove(g.last_processed, g.addr_to_id[addr])
                          ELSE g.last_processed,
       !.players = MapRemove(g.players, addr)]

\* Game::disconnect_player
disconnect_player(g, addr) ==
    [g EXCEPT
       !.addr_to_id = MapRemove(g.addr_to_id, addr),
       !.id_to_addr = IF addr \in DOMAIN g.addr_to_id
                      THEN MapRemove(g.id_to_addr, g.addr_to_id[addr])
                      ELSE g.id_to_addr,
       !.last_processed = IF addr \in DOMAIN g.addr_to_id
                          THEN MapRemove(g.last_processed, g.addr_to_id[addr])
                          ELSE g.last_processed,
       !.players = MapRemove(g.players, addr)]

\* the addresses update_server_dropped collects in to_disconnect (game.rs:126-130)
TimedOut(g, t) ==
    {a \in DOMAIN g.players : t - g.players[a].last_active >= TIMEOUT}

\* the loop over to_disconnect (game.rs:133-138)
RECURSIVE DisconnectAll(_, _)
DisconnectAll(g, S) ==
    IF S = {} THEN g
    ELSE LET a == CHOOSE x \in S : TRUE
         IN  DisconnectAll(disconnect_player(g, a), S \ {a})

\* Game::update_server_dropped
update_server_dropped(g, t) == DisconnectAll(g, TimedOut(g, t))

\* the orders in which iterating a HashMap with the keys S can yield them.
\* The order follows from the map's RandomState and from its insertions and
\* removals; iterating an unmodified map again yields the same order.
IterationOrders(S) ==
    { order \in [1 .. Cardinality(S) -> S] :
          \A i, j \in 1 .. Cardinality(S) : order[i] = order[j] => i = j }

\* Game::active_player_addrs: the keys of players, in the order the map
\* yields them
active_player_addrs(g, order) == order

\* Game::build_snapshot: one (id, position, color) entry per session, in the
\* iteration order of the players map
SnapshotPlayers(g, order) ==
    [i \in 1 .. Len(order) |->
        [id |-> g.addr_to_id[order[i]],
         position |-> g.players[order[i]].position,
         color |-> g.players[order[i]].color]]

\* variant of build_snapshot that copies no last_processed entry
build_snapshot_NoLastProcessed(g, order, elapsed) ==
    [players |-> SnapshotPlayers(g, order),
     last_processed |-> EmptyMap,
     server_timestamp |-> elapsed]

\* order is the iteration order of g.players, elapsed what
\* Instant::now().elapsed().as_millis() returns
build_snapshot(g, order, elapsed) ==
    [players |-> SnapshotPlayers(g, order),
     last_processed |-> g.last_processed,
     server_timestamp |-> elapsed]

\* build_snapshot unwraps addr_to_id[addr] for every session (game.rs:159)
build_snapshot_panics(g) == \E a \in DOMAIN g.players : a \notin DOMAIN g.addr_to_id

(* ----------------------------- prediction.rs ---------------------------- *)

\* the position the client starts from (client.rs:28)
ClientInitialPosition == [x |-> 320, y |-> 240]

\* A reading of get_time() is counted in units of 2^-29 s, the unit in the
\* last place of INTERPOLATION_DELAY as f32.  The readings followed, their
\* differences and 0.5 are whole numbers of units and exact in f64, so the
\* comparison of prediction.rs:76 is the one on integers; every f32 from
\* 2^-6 s up is a whole number of units too.
TimeUnitsPerSecond == 2^29
\* the elapsed time beyond which reconcile clears everything: the literal 0.5
\* (seconds) of prediction.rs:76
ResyncAfter == TimeUnitsPerSecond \div 2
\* the sequence gap beyond which reconcile clears everything (prediction.rs:76)
ResyncGap == 5

PredictionState_new(pos) ==
    [next_sequence |-> 0,
     pending_inputs |-> << >>,
     position_history |-> << >>,
     last_confirmed_sequence |-> 0,
     last_confirmed_position |-> pos,
     last_reconciliation_time |-> 0]

ThePrediction ==
    [next_sequence |-> next_sequence,
     pending_inputs |-> pending_inputs,
     position_history |-> position_history,
     last_confirmed_sequence |-> last_confirmed_sequence,
     last_confirmed_position |-> last_confirmed_position,
     last_reconciliation_time |-> last_reconciliation_time]

\* variant of ClientMove whose lower border leaves out the tool bar
ClientMove_NoToolBar(pos, dir) ==
    CASE dir = "Up"    -> [pos EXCEPT !.y = Max(saturating_sub(pos.y, PLAYER_SPEED), PLAYER_SIZE)]
      [] dir = "Down"  -> [pos EXCEPT !.y = Min(saturating_add(pos.y, PLAYER_SPEED),
                                                 BOARD_HEIGHT - PLAYER_SIZE)]
      [] dir = "Left"  -> [pos EXCEPT !.x = Max(saturating_sub(pos.x, PLAYER_SPEED), PLAYER_SIZE)]
      [] dir = "Right" -> [pos EXCEPT !.x = Min(saturating_add(pos.x, PLAYER_SPEED),
                                                 BOARD_WIDTH - PLAYER_SIZE)]

\* the match on input.dir of apply_prediction (prediction.rs:36-41)
ClientMove(pos, dir) ==
    CASE dir = "Up"    -> [pos EXCEPT !.y = Max(saturating_sub(pos.y, PLAYER_SPEED), PLAYER_SIZE)]
      [] dir = "Down"  -> [pos EXCEPT !.y = Min(saturating_add(pos.y, PLAYER_SPEED),
                                                 BOARD_HEIGHT - PLAYER_SIZE - TOOL_BAR_HEIGHT)]
      [] dir = "Left"  -> [pos EXCEPT !.x = Max(saturating_sub(pos.x, PLAYER_SPEED), PLAYER_SIZE)]
      [] dir = "Right" -> [pos EXCEPT !.x = Min(saturating_add(pos.x, PLAYER_SPEED),
                                                 BOARD_WIDTH - PLAYER_SIZE)]

\* apply_prediction: the position before the move is recorded under the
\* input's sequence, then the position is moved; yields the new state and the
\* new position
apply_prediction(ps, input, current_position) ==
    [ps  |-> [ps EXCEPT !.position_history =
                  Append(@, [sequence |-> input.sequence, pos |-> current_position])],
     pos |-> ClientMove(current_position, input.dir)]

\* the two while-let loops of reconcile (prediction.rs:57-72): entries are
\* popped from the front as long as the front's sequence is <= server_sequence
RECURSIVE PopConfirmed(_, _)
PopConfirmed(q, server_sequence) ==
    IF q # << >> /\ Head(q).sequence <= server_sequence
    THEN PopConfirmed(Tail(q), server_sequence)
    ELSE q

\* variant of reconcile that also accepts the sequence already confirmed
reconcile_AtLeast(ps, server_position, server_sequence, current_time) ==
    IF server_sequence >= ps.last_confirmed_sequence
    THEN LET time_since_last == current_time - ps.last_reconciliation_time
             ps1 == [ps EXCEPT !.last_reconciliation_time = current_time,
                               !.last_confirmed_sequence = server_sequence,
                               !.last_confirmed_position = server_position,
                               !.pending_inputs = PopConfirmed(@, server_sequence),
                               !.position_history = PopConfirmed(@, server_sequence)]
         IN  IF server_sequence - ps1.last_confirmed_sequence > ResyncGap
                \/ time_since_last > ResyncAfter
             THEN [ps1 EXCEPT !.pending_inputs = << >>, !.position_history = << >>]
             ELSE ps1
    ELSE ps

\* variant of reconcile that clears everything from exactly half a second on
reconcile_ResyncAtHalfSecond(ps, server_position, server_sequence, current_time) ==
    IF server_sequence > ps.last_confirmed_sequence
    THEN LET time_since_last == current_time - ps.last_reconciliation_time
             ps1 == [ps EXCEPT !.last_reconciliation_time = current_time,
                               !.last_confirmed_sequence = server_sequence,
                               !.last_confirmed_position = server_position,
                               !.pending_inputs = PopConfirmed(@, server_sequence),
                               !.position_history = PopConfirmed(@, server_sequence)]
         IN  IF server_sequence - ps1.last_confirmed_sequence > ResyncGap
                \/ time_since_last >= ResyncAfter
             THEN [ps1 EXCEPT !.pending_inputs = << >>, !.position_history = << >>]
             ELSE ps1
    ELSE ps

\* reconcile (prediction.rs:45-82).  The gap of line 76 is computed from
\* last_confirmed_sequence as line 53 has already set it.
reconcile(ps, server_position, server_sequence, current_time) ==
    IF server_sequence > ps.last_confirmed_sequence
    THEN LET time_since_last == current_time - ps.last_reconciliation_time
             ps1 == [ps EXCEPT !.last_reconciliation_time = current_time,
                               !.last_confirmed_sequence = server_sequence,
                               !.last_confirmed_position = server_position,
                               !.pending_inputs = PopConfirmed(@, server_sequence),
                               !.position_history = PopConfirmed(@, server_sequence)]
         IN  IF server_sequence - ps1.last_confirmed_sequence > ResyncGap
                \/ time_since_last > ResyncAfter
             THEN [ps1 EXCEPT !.pending_inputs = << >>, !.position_history = << >>]
             ELSE ps1
    ELSE ps

\* the for loop of reapply_pending_inputs (prediction.rs:93-95) over the
\* inputs collected at line 90
RECURSIVE ReapplyLoop(_, _, _)
ReapplyLoop(ps, pos, inputs) ==
    IF inputs = << >> THEN [ps |-> ps, pos |-> pos]
    ELSE LET r == apply_prediction(ps, Head(inputs).input, pos)
         IN  ReapplyLoop(r.ps, r.pos, Tail(inputs))

\* variant of reapply_pending_inputs that replays on top of the position
\* passed in
reapply_pending_inputs_NoReset(ps, current_position) ==
    ReapplyLoop(ps, current_position, ps.pending_inputs)

\* reapply_pending_inputs (prediction.rs:85-96); the position passed in is
\* overwritten at line 87
reapply_pending_inputs(ps, current_position) ==
    ReapplyLoop(ps, ps.last_confirmed_position, ps.pending_inputs)

\* get_prediction_error squared: the square root is left out
get_prediction_error_squared(ps, server_position) ==
    LET dx == server_position.x - ps.last_confirmed_position.x
        dy == server_position.y - ps.last_confirmed_position.y
    IN  dx * dx + dy * dy

(* ---------------------------- interpolation.rs --------------------------- *)

\* An f32 time is counted in the units of TimeUnitsPerSecond.  The operators
\* below are exact for times under 2 s (2^30 units) and for coordinates from
\* 16 to 1023.
\* constants.rs:7, 0.016 as f32 = 8589935 * 2^-29
INTERPOLATION_DELAY == 8589935
\* constants.rs:43, the MAX_POSITION_HISTORY that interpolation.rs imports
\* (game.rs:8 defines its own)
Interpolation_MAX_POSITION_HISTORY == 30

\* Option<T>
None == << >>
Some(v) == << v >>

\* the number of bits of a natural number below 2^31
BitLen(n) ==
    IF n = 0 THEN 0
    ELSE CHOOSE k \in 1 .. 31 : 2^(k - 1) <= n /\ (k = 31 \/ n < 2^k)

\* n / 2^s rounded to the nearest integer, ties to even; sticky says that the
\* value rounded is a little more than n
RoundShift(n, s, sticky) ==
    IF s = 0 THEN n
    ELSE LET q == n \div 2^s
             r == n % 2^s
             h == 2^(s - 1)
         IN  IF r > h \/ (r = h /\ (sticky \/ q % 2 = 1)) THEN q + 1 ELSE q

\* a whole number of units rounded to the 24 significant bits of an f32
F32Round(v) ==
    LET a == IF v < 0 THEN -v ELSE v
        e == BitLen(a)
        r == IF e <= 24 THEN a ELSE RoundShift(a, e - 24, FALSE) * 2^(e - 24)
    IN  IF v < 0 THEN -r ELSE r

\* the position of the first 1 bit of a / b after the binary point, 0 < a <= b
RECURSIVE LeadingZeros(_, _)
LeadingZeros(r, b) == IF 2 * r >= b THEN 1 ELSE 1 + LeadingZeros(2 * r, b)

\* n bits of the long division of r by b
RECURSIVE DivBits(_, _, _, _)
DivBits(r, b, n, acc) ==
    IF n = 0 THEN [q |-> acc, r |-> r]
    ELSE IF 2 * r >= b THEN DivBits(2 * r - b, b, n - 1, 2 * acc + 1)
         ELSE DivBits(2 * r, b, n - 1, 2 * acc)

\* the f32 quotient a / b of two f32 values, 0 < a <= b: mant * 2^-exp
F32Quotient(a, b) ==
    LET z == LeadingZeros(a, b)
        d == DivBits(a, b, z + 24, 0)
    IN  [mant |-> RoundShift(d.q, 1, d.r # 0), exp |-> z + 23]

\* the f32 product of an integer 0 < d < 1024 and t = mant * 2^-exp: the
\* 34-bit product is kept in two parts, hi * 2^12 + lo
F32Product(d, t) ==
    LET lp == d * (t.mant % 4096)
        hi == d * (t.mant \div 4096) + lp \div 4096
        lo == lp % 4096
        s == Max(BitLen(hi) - 12, 0)
        q == hi * 2^(12 - s) + lo \div 2^s
        r == lo % 2^s
        up == s > 0 /\ (r > 2^(s - 1) \/ (r = 2^(s - 1) /\ q % 2 = 1))
    IN  [mant |-> IF up THEN q + 1 ELSE q, exp |-> t.exp - s]

\* (from as f32 + p) as i32, where p is up * (mant * 2^-exp), up being +1 or
\* -1: the sum is formed in units of 2^-20, rounded to 24 bits and truncated
F32SumAsI32(from, up, p) ==
    LET k == p.exp - 20
        p20 == IF k <= 0 THEN p.mant * 2^(-k)
               ELSE IF k >= 25 THEN 0
               ELSE p.mant \div 2^k
        sticky == IF k <= 0 THEN FALSE
                  ELSE IF k >= 25 THEN p.mant # 0
                  ELSE p.mant % 2^k # 0
        sum == IF up > 0 THEN from * 2^20 + p20
               ELSE from * 2^20 - p20 - (IF sticky THEN 1 ELSE 0)
        e == BitLen(sum)
        v == IF e <= 24 THEN sum ELSE RoundShift(sum, e - 24, sticky) * 2^(e - 24)
    IN  v \div 2^20

\* interpolation.rs:73-79 for one coordinate:
\*   t = ((target_time - prev.timestamp) / (next.timestamp - prev.timestamp))
\*           .max(0.0).min(1.0)
\*   (prev as f32 + (next - prev) as f32 * t) as i32
Lerp(prev, next, target_time, prev_timestamp, next_timestamp) ==
    LET a == F32Round(target_time - prev_timestamp)
        b == F32Round(next_timestamp - prev_timestamp)
    IN  IF a <= 0 \/ next = prev THEN prev
        ELSE IF a >= b THEN next
        ELSE LET t == F32Quotient(a, b)
                 d == IF next > prev THEN next - prev ELSE prev - next
             IN  F32SumAsI32(prev, IF next > prev THEN 1 ELSE -1, F32Product(d, t))

InterpolationState_new ==
    [position_history |-> << >>,
     interpolation_delay |-> INTERPOLATION_DELAY,
     last_sequence |-> 0,
     last_position |-> None]

\* the pop_front loop of interpolation.rs:42-44
KeepLast(q, n) == IF Len(q) > n THEN SubSeq(q, Len(q) - n + 1, Len(q)) ELSE q

\* add_position with the gate of line 29 as  sequence < last_sequence
add_position_SkipOlderOnly(st, position, timestamp, sequence) ==
    IF sequence < st.last_sequence THEN st
    ELSE [st EXCEPT
              !.last_sequence = sequence,
              !.position_history =
                  KeepLast(Append(@, [position |-> position, timestamp |-> timestamp,
                                      sequence |-> sequence]),
                           Interpolation_MAX_POSITION_HISTORY),
              !.last_position = Some(position)]

add_position(st, position, timestamp, sequence) ==
    IF sequence <= st.last_sequence THEN st
    ELSE [st EXCEPT
              !.last_sequence = sequence,
              !.position_history =
                  KeepLast(Append(@, [position |-> position, timestamp |-> timestamp,
                                      sequence |-> sequence]),
                           Interpolation_MAX_POSITION_HISTORY),
              !.last_position = Some(position)]

\* the loop of interpolation.rs:61-68: next_pos is the first entry with a
\* timestamp after target_time, prev_pos the entry before it (the last entry
\* when there is no such next_pos)
FirstAfter(h, target_time) ==
    LET later == { i \in 1 .. Len(h) : h[i].timestamp > target_time }
    IN  IF later = { } THEN 0 ELSE CHOOSE i \in later : \A j \in later : i <= j

\* get_interpolated_position with the arm (None, Some(next)) returning
\* last_position
get_interpolated_position_LastBeforeAll(st, current_time) ==
    LET h == st.position_history
        target_time == F32Round(current_time - st.interpolation_delay)
        n == FirstAfter(h, target_time)
    IN  IF Len(h) < 2 THEN st.last_position
        ELSE IF n = 0 THEN Some(h[Len(h)].position)
        ELSE IF n = 1 THEN st.last_position
        ELSE Some([x |-> Lerp(h[n - 1].position.x, h[n].position.x, target_time,
                              h[n - 1].timestamp, h[n].timestamp),
                   y |-> Lerp(h[n - 1].position.y, h[n].position.y, target_time,
                              h[n - 1].timestamp, h[n].timestamp)])

get_interpolated_position(st, current_time) ==
    LET h == st.position_history
        target_time == F32Round(current_time - st.interpolation_delay)
        n == FirstAfter(h, target_time)
    IN  IF Len(h) < 2 THEN st.last_position
        ELSE IF n = 0 THEN Some(h[Len(h)].position)
        ELSE IF n = 1 THEN Some(h[1].position)
        ELSE Some([x |-> Lerp(h[n - 1].position.x, h[n].position.x, target_time,
                              h[n - 1].timestamp, h[n].timestamp),
                   y |-> Lerp(h[n - 1].position.y, h[n].position.y, target_time,
                              h[n - 1].timestamp, h[n].timestamp)])

(* ------------------------------- network.rs ------------------------------ *)

DELAY_MS == 0
PACKET_LOSS == 0

\* NetworkClient::new: the fields next to the socket and the server address
NetworkClient_new ==
    [delay_ms |-> DELAY_MS, packet_loss |-> PACKET_LOSS, delayed_packets |-> << >>]

\* the NetworkClient value held in the variables
TheNetwork ==
    [delay_ms |-> delay_ms, packet_loss |-> packet_loss,
     delayed_packets |-> delayed_packets]

\* the ClientMessage variants (types.rs:7-13)
ConnectMsg == [kind |-> "Connect"]
PlayerIdMsg(id) == [kind |-> "PlayerId", id |-> id]
InputMsg(input) == [kind |-> "Input", input |-> input]
PingMsg(timestamp) == [kind |-> "Ping", timestamp |-> timestamp]
PongMsg(timestamp) == [kind |-> "Pong", timestamp |-> timestamp]

\* simulate_network_conditions: the results random_bool(packet_loss / 100.0)
\* can give, TRUE for a drop; a probability of 0 never gives TRUE and one of
\* 1 never gives FALSE
simulate_network_conditions(net) ==
    { b \in BOOLEAN : (net.packet_loss = 0 => ~b) /\ (net.packet_loss = 100 => b) }

\* the results of random_range(-5..=5) followed: both ends and the middle
Jitters == {-5, 0, 5}

\* send_connect and send_ping hand the datagram to the socket
send_connect(net, socket) == [net |-> net, socket |-> Append(socket, ConnectMsg)]
send_ping(net, socket, timestamp) ==
    [net |-> net, socket |-> Append(socket, PingMsg(timestamp))]

\* send_input with the result of simulate_network_conditions and the jitter
\* drawn; instant is the reading of Instant::now()
send_input(net, socket, input, drop, jitter, instant) ==
    IF drop THEN [net |-> net, socket |-> socket]
    ELSE IF net.delay_ms > 0
    THEN [net |-> [net EXCEPT !.delayed_packets =
                       Append(@, [data |-> InputMsg(input), send_time |-> instant,
                                  sequence |-> input.sequence,
                                  delay |-> Max(net.delay_ms + jitter, 0)])],
          socket |-> socket]
    ELSE [net |-> net, socket |-> Append(socket, InputMsg(input))]

\* variant of ReadyCount that pops every queued packet, elapsed or not
ReadyCount_All(q, instant) == Len(q)

\* the number of packets the loop of network.rs:92-99 pops from the front
RECURSIVE ReadyCount(_, _)
ReadyCount(q, instant) ==
    IF q # << >> /\ instant - Head(q).send_time >= Head(q).delay
    THEN 1 + ReadyCount(Tail(q), instant)
    ELSE 0

\* the orders shuffle can leave n packets in
Shuffles(n) == { f \in [1 .. n -> 1 .. n] : \A i, j \in 1 .. n : f[i] = f[j] => i = j }

\* process_delayed_packets with the order the shuffle produced
process_delayed_packets(net, socket, instant, order) ==
    LET n == ReadyCount(net.delayed_packets, instant)
    IN  [net |-> [net EXCEPT !.delayed_packets = SubSeq(@, n + 1, Len(@))],
         socket |-> socket \o [i \in 1 .. n |-> net.delayed_packets[order[i]].data]]

\* a u64 of hi * 2^32 + lo, which is beyond the integers followed
U64(hi, lo) == [hi |-> hi, lo |-> lo]
\* the first four bytes of the Uuid an id stands for, as a little-endian u32:
\* the id stands for them
UuidWord(id) == id

\* The bytes of a GameState read as a ClientMessage.  bincode writes integers
\* in fixed width, little end first: a GameState begins with players.len()
\* as u64 and, when it lists a player, goes on with the length prefix 16 (u64)
\* of the first Uuid and its bytes; a ClientMessage begins with its variant
\* index as u32.  The lower half of players.len() is read as the index:
\*   0 Connect;
\*   1 PlayerId, whose Uuid has the length prefix read from bytes 4..12, which
\*     is 16 * 2^32 and more than the datagram holds: an error;
\*   2 Input with dir from bytes 4..8 (0, Up), sequence from bytes 8..12 (16)
\*     and timestamp from bytes 12..20;
\*   3 Ping and 4 Pong with the u64 of bytes 4..12;
\*   5 and more: no variant, an error.
\* Trailing bytes are not an error.
GameStateAsClientMessage(state) ==
    LET n == Len(state.players)
    IN  CASE n = 0 -> Some(ConnectMsg)
          [] n = 2 -> Some(InputMsg([dir |-> "Up", sequence |-> 16,
                                     timestamp |-> U64(UuidWord(state.players[1].id), 0)]))
          [] n = 3 -> Some(PingMsg(U64(16, 0)))
          [] n = 4 -> Some(PongMsg(U64(16, 0)))
          [] OTHER -> None

\* what bincode::deserialize::<T>(..).ok() gives for a datagram the server
\* sent: the poll for a snapshot reads a GameState, the poll for a message a
\* ClientMessage.  A PlayerId or Pong read as a GameState has a players.len()
\* that the rest of the datagram does not hold: an error.
Deserialize(poll, datagram) ==
    IF poll = "snapshot"
    THEN IF datagram.kind = "GameState" THEN Some(datagram) ELSE None
    ELSE IF datagram.kind = "GameState" THEN GameStateAsClientMessage(datagram.state)
    ELSE Some(datagram)

\* receive_data::<T> with the order of the shuffle and the result of
\* simulate_network_conditions; waiting is the queue of the socket
receive_data(net, socket, waiting, poll, instant, order, drop) ==
    LET flushed == process_delayed_packets(net, socket, instant, order)
    IN  IF drop
        THEN [net |-> flushed.net, socket |-> flushed.socket, waiting |-> waiting,
              ret |-> None]
        ELSE IF waiting = << >>
        THEN [net |-> flushed.net, socket |-> flushed.socket, waiting |-> waiting,
              ret |-> None]
        ELSE [net |-> flushed.net, socket |-> flushed.socket, waiting |-> Tail(waiting),
              ret |-> Deserialize(poll, Head(waiting))]

(* ------------------------- operations on the Game ----------------------- *)

NoInput == [dir |-> NoDir, sequence |-> 0, timestamp |-> 0]

\* the two tasks of the server (server.rs:30 and :60) before their first step:
\* the receive loop awaits recv_from, the broadcast task awaits its interval
NoTask == "none"
NoDatagram == [kind |-> "none"]
TasksAtStart ==
    [receive |-> [at |-> "recv_from", kind |-> "none", addr |-> NoAddr,
                  input |-> NoInput, id |-> NoId],
     broadcast |-> [at |-> "tick", game_state |-> NoDatagram, active_players |-> << >>]]
\* the inputs received: every direction, with both orders of sequence numbers
PlayerInputs ==
    { [dir |-> "Up", sequence |-> 0, timestamp |-> 0],
      [dir |-> "Down", sequence |-> 1, timestamp |-> 0],
      [dir |-> "Left", sequence |-> 1, timestamp |-> 0],
      [dir |-> "Right", sequence |-> 0, timestamp |-> 0] }

\* the inputs received from one address: a1 moves up and down, a2 left and
\* right
InputsFrom(addr) ==
    { input \in PlayerInputs : (addr = "a1") = (input.dir \in {"Up", "Down"}) }

RECURSIVE TotalEntries(_, _)
TotalEntries(ps, S) ==
    IF S = {} THEN 0
    ELSE LET a == CHOOSE x \in S : TRUE
         IN  Len(ps[a].position_history) + TotalEntries(ps, S \ {a})

Call(name, addr, input) ==
    [name |-> name, addr |-> addr, input |-> input, live |-> DOMAIN players]

\* the sessions removed at the present clock reading: those g2 no longer has
\* are added, those connected again are dropped
NoSession == [id |-> NoId, color |-> 0, at |-> 0]
Removed(g1, g2, t) ==
    [a \in Addrs |->
        IF a \in DOMAIN g1.players /\ a \notin DOMAIN g2.players
        THEN [id |-> IF a \in DOMAIN g1.addr_to_id THEN g1.addr_to_id[a] ELSE NoId,
              color |-> g1.players[a].color, at |-> t]
        ELSE IF a \in DOMAIN g2.players
        THEN NoSession
        ELSE removed[a]]

SetGame(g) ==
    /\ players' = g.players
    /\ id_to_addr' = g.id_to_addr
    /\ addr_to_id' = g.addr_to_id
    /\ last_processed' = g.last_processed
    /\ panicked' = g.panicked
    /\ removed' = Removed(TheGame, g, now)

\* what the random generator and Uuid::new_v4 may return to connect_player;
\* nothing is drawn when the address already has a session
\* the number of history entries of the live sessions written after a pause
RECURSIVE PausedEntries(_, _)
PausedEntries(ps, S) ==
    IF S = {} THEN 0
    ELSE LET a == CHOOSE x \in S : TRUE
         IN  Len(SelectSeq(ps[a].position_history, LAMBDA e : e.timestamp # 0))
                 + PausedEntries(ps, S \ {a})

\* what Instant::now().elapsed().as_millis() may return in this state: a
\* pause is followed while the live sessions' position histories hold fewer
\* than MaxPauses entries written after one
Elapsed_as_millis ==
    IF PausedEntries(players, DOMAIN players) < MaxPauses
    THEN InstantNowElapsedMillis
    ELSE {0}

NoDraw == [pos |-> [x |-> PLAYER_SIZE, y |-> PLAYER_SIZE], color |-> 0, id |-> NoId,
           elapsed |-> 0]
Draws(addr) ==
    IF addr \in DOMAIN players THEN {NoDraw}
    ELSE {[pos |-> d.pos, color |-> d.color, id |-> i, elapsed |-> e] :
              d \in RandomDraws, i \in Uuid_new_v4, e \in Elapsed_as_millis}

\* the draws followed in the server's receive loop: a1 is spawned at the
\* first of RandomDraws and a2 at the second
ServerDraws(addr) ==
    { d \in Draws(addr) :
          d.id = NoId \/ (addr = "a1") = (d.pos = [x |-> PLAYER_SIZE, y |-> PLAYER_SIZE]) }

Do_connect_player(addr) ==
    /\ UNCHANGED <<clientVars, remoteVars, taskVars>>
    /\ ~panicked
    /\ addr \notin DOMAIN players => TotalEntries(players, DOMAIN players) < MaxEntries
    /\ \E rnd \in Draws(addr) :
          LET r == connect_player(TheGame, addr, rnd, now)
          IN  /\ SetGame(r.g)
              /\ ret' = r.ret
              /\ issued' = issued \cup ({rnd.id} \ {NoId})
    /\ call' = Call("connect_player", addr, NoInput)
    /\ UNCHANGED <<now, sent>>

Do_handle_input(addr, input) ==
    /\ UNCHANGED <<clientVars, remoteVars, taskVars>>
    /\ ~panicked
    /\ addr \in DOMAIN players => TotalEntries(players, DOMAIN players) < MaxEntries
    /\ \E elapsed \in Elapsed_as_millis :
          SetGame(handle_input(TheGame, addr, input, now, elapsed))
    /\ ret' = NoId
    /\ call' = Call("handle_input", addr, input)
    /\ UNCHANGED <<now, issued, sent>>

Do_disconnect_player(addr) ==
    /\ UNCHANGED <<clientVars, remoteVars, taskVars>>
    /\ ~panicked
    /\ SetGame(disconnect_player(TheGame, addr))
    /\ ret' = NoId
    /\ call' = Call("disconnect_player", addr, NoInput)
    /\ UNCHANGED <<now, issued, sent>>

Do_update_server_dropped ==
    /\ UNCHANGED <<clientVars, remoteVars, taskVars>>
    /\ ~panicked
    /\ SetGame(update_server_dropped(TheGame, now))
    /\ ret' = NoId
    /\ call' = Call("update_server_dropped", NoAddr, NoInput)
    /\ UNCHANGED <<now, issued, sent>>

\* the clock advances by TimeStep seconds
Tick ==
    /\ UNCHANGED <<clientVars, remoteVars, taskVars>>
    /\ now < MaxTicks * TimeStep
    /\ now' = now + TimeStep
    /\ removed' = [a \in Addrs |-> NoSession]
    /\ call' = Call("tick", NoAddr, NoInput)
    /\ ret' = NoId
    /\ UNCHANGED <<gameVars, issued, sent>>

Init ==
    /\ players = Game_new.players
    /\ id_to_addr = Game_new.id_to_addr
    /\ addr_to_id = Game_new.addr_to_id
    /\ last_processed = Game_new.last_processed
    /\ panicked = Game_new.panicked
    /\ now = 0
    /\ issued = {}
    /\ removed = [a \in Addrs |-> NoSession]
    /\ call = [name |-> "new", addr |-> NoAddr, input |-> NoInput, live |-> {}]
    /\ ret = NoId
    /\ sent = << >>
    /\ lock = NoTask
    /\ tasks = TasksAtStart
    /\ next_sequence = PredictionState_new(ClientInitialPosition).next_sequence
    /\ pending_inputs = PredictionState_new(ClientInitialPosition).pending_inputs
    /\ position_history = PredictionState_new(ClientInitialPosition).position_history
    /\ last_confirmed_sequence =
           PredictionState_new(ClientInitialPosition).last_confirmed_sequence
    /\ last_confirmed_position =
           PredictionState_new(ClientInitialPosition).last_confirmed_position
    /\ last_reconciliation_time =
           PredictionState_new(ClientInitialPosition).last_reconciliation_time
    /\ my_pos = ClientInitialPosition
    /\ my_id = NoId
    /\ client_time = 0
    /\ interpolation = InterpolationState_new
    /\ frame_time = 0
    /\ delay_ms = NetworkClient_new.delay_ms
    /\ packet_loss = NetworkClient_new.packet_loss
    /\ delayed_packets = NetworkClient_new.delayed_packets
    /\ wire = << >>
    /\ inbox = << >>
    /\ instant_now = 0

Next ==
    \/ \E a \in Addrs : Do_connect_player(a)
    \/ \E a \in Addrs : \E input \in InputsFrom(a) : Do_handle_input(a, input)
    \/ \E a \in Addrs : Do_disconnect_player(a)
    \/ Do_update_server_dropped
    \/ Tick

Spec == Init /\ [][Next]_vars

(* ------------------------- bin/server.rs: main ------------------------- *)

\* the timestamp a client puts in a Ping
PingTimestamps == {1000}

\* the GameState rebuilt from a snapshot with its own reading of the clock
\* (server.rs:44-48, 77-81)
GameStateMsg(snapshot, elapsed) ==
    [kind |-> "GameState",
     state |-> [players |-> snapshot.players,
                last_processed |-> snapshot.last_processed,
                server_timestamp |-> elapsed]]
Datagram(to, msg) == [to |-> to, msg |-> msg]

(* ------------------ bin/server.rs: the two tasks and the lock ------------ *)

\* The receive loop (server.rs:60-115) and the broadcast task (server.rs:30-56)
\* step by step. Each takes the Mutex<Game> with lock().await and holds the
\* guard to the end of the enclosing block; every send_to(..).await is a point
\* where the clock may advance and the other task may run up to its own
\* lock().await. sent holds the datagrams handed to the socket since the lock
\* was last taken, in the order of the send_to calls.

\* the datagrams the client at an address may send
ClientDatagrams(addr) ==
    {[kind |-> "Connect", input |-> NoInput]}
    \cup {[kind |-> "Input", input |-> i] : i \in InputsFrom(addr)}
    \cup {[kind |-> "Ping", input |-> [NoInput EXCEPT !.timestamp = t]] : t \in PingTimestamps}
    \cup {[kind |-> k, input |-> NoInput] : k \in {"Pong", "PlayerId"}}

\* the first statement of the match arm for a message (server.rs:67-108)
Arm(kind) ==
    CASE kind = "Connect" -> "connect_player"
      [] kind = "Input"   -> "handle_input"
      [] kind = "Ping"    -> "send_pong"
      [] OTHER            -> "unlock"

SetReceive(at) == tasks' = [tasks EXCEPT !.receive.at = at]
SetBroadcast(at) == tasks' = [tasks EXCEPT !.broadcast.at = at]
TaskCall(name) == Call(name, tasks.receive.addr, tasks.receive.input)

\* socket.recv_from(..).await returns a datagram that deserializes
\* (server.rs:61-64)
Rx_recv_from(addr, datagram) ==
    /\ tasks.receive.at = "recv_from"
    /\ ~panicked
    /\ datagram.kind = "Connect" => Ids \ issued # {}
    /\ (datagram.kind = "Input" /\ addr \in DOMAIN players)
           => TotalEntries(players, DOMAIN players) < MaxLockEntries
    /\ tasks' = [tasks EXCEPT !.receive = [at |-> "lock", kind |-> datagram.kind,
                                           addr |-> addr, input |-> datagram.input,
                                           id |-> NoId]]
    /\ call' = Call("recv_from", addr, datagram.input)
    /\ ret' = NoId
    /\ UNCHANGED <<gameVars, now, issued, removed, sent, lock, clientVars, remoteVars>>

\* game.lock().await of the receive loop (server.rs:65)
Rx_lock ==
    /\ tasks.receive.at = "lock"
    /\ lock = NoTask
    /\ lock' = "receive"
    /\ sent' = << >>
    /\ SetReceive(Arm(tasks.receive.kind))
    /\ call' = TaskCall("lock")
    /\ ret' = NoId
    /\ UNCHANGED <<gameVars, now, issued, removed, clientVars, remoteVars>>

\* game.connect_player(addr) (server.rs:69)
Rx_connect_player ==
    /\ tasks.receive.at = "connect_player"
    /\ \E rnd \in ServerDraws(tasks.receive.addr) :
          LET r == connect_player(TheGame, tasks.receive.addr, rnd, now)
          IN  /\ SetGame(r.g)
              /\ ret' = r.ret
              /\ issued' = issued \cup ({rnd.id} \ {NoId})
              /\ tasks' = [tasks EXCEPT !.receive.at = "send_id", !.receive.id = r.ret]
    /\ call' = TaskCall("connect_player")
    /\ UNCHANGED <<now, sent, lock, clientVars, remoteVars>>

\* variant of Rx_send_id that sends the snapshot where the id belongs
Rx_send_id_SnapshotFirst ==
    /\ tasks.receive.at = "send_id"
    /\ \E order \in IterationOrders(DOMAIN players), elapsed \in Elapsed_as_millis :
          sent' = Append(sent, Datagram(tasks.receive.addr,
                                        GameStateMsg(build_snapshot(TheGame, order, elapsed),
                                                     elapsed)))
    /\ SetReceive("send_state")
    /\ call' = TaskCall("send_to")
    /\ ret' = NoId
    /\ UNCHANGED <<gameVars, now, issued, removed, lock, clientVars, remoteVars>>

\* socket.send_to(&id_payload, addr).await (server.rs:71-73)
Rx_send_id_step ==
    /\ tasks.receive.at = "send_id"
    /\ sent' = Append(sent, Datagram(tasks.receive.addr, PlayerIdMsg(tasks.receive.id)))
    /\ SetReceive("send_state")
    /\ call' = TaskCall("send_to")
    /\ ret' = NoId
    /\ UNCHANGED <<gameVars, now, issued, removed, lock>>

\* the step while no client's socket is followed
Rx_send_id == Rx_send_id_step /\ UNCHANGED <<clientVars, remoteVars>>

\* build_snapshot and socket.send_to(&state_payload, addr).await (server.rs:76-83)
Rx_send_state_step ==
    /\ tasks.receive.at = "send_state"
    /\ ~build_snapshot_panics(TheGame)
    /\ \E order \in IterationOrders(DOMAIN players), elapsed \in Elapsed_as_millis :
          sent' = Append(sent, Datagram(tasks.receive.addr,
                                        GameStateMsg(build_snapshot(TheGame, order, elapsed),
                                                     elapsed)))
    /\ SetReceive("unlock")
    /\ call' = TaskCall("send_to")
    /\ ret' = NoId
    /\ UNCHANGED <<gameVars, now, issued, removed, lock>>

\* the step while no client's socket is followed
Rx_send_state == Rx_send_state_step /\ UNCHANGED <<clientVars, remoteVars>>

\* the Input arm (server.rs:88-89)
Rx_handle_input ==
    /\ tasks.receive.at = "handle_input"
    /\ \E elapsed \in Elapsed_as_millis :
          SetGame(update_server_dropped(
                      handle_input(TheGame, tasks.receive.addr, tasks.receive.input, now,
                                   elapsed), now))
    /\ SetReceive("unlock")
    /\ call' = TaskCall("handle_input")
    /\ ret' = NoId
    /\ UNCHANGED <<now, issued, sent, lock, clientVars, remoteVars>>

\* socket.send_to(&pong_payload, addr).await (server.rs:93-95)
Rx_send_pong_step ==
    /\ tasks.receive.at = "send_pong"
    /\ sent' = Append(sent, Datagram(tasks.receive.addr,
                                     PongMsg(tasks.receive.input.timestamp)))
    /\ SetReceive("last_active")
    /\ call' = TaskCall("send_to")
    /\ ret' = NoId
    /\ UNCHANGED <<gameVars, now, issued, removed, lock>>

\* the step while no client's socket is followed
Rx_send_pong == Rx_send_pong_step /\ UNCHANGED <<clientVars, remoteVars>>

\* player.last_active = Instant::now() (server.rs:98-100)
Rx_last_active ==
    /\ tasks.receive.at = "last_active"
    /\ players' = IF tasks.receive.addr \in DOMAIN players
                  THEN [players EXCEPT ![tasks.receive.addr].last_active = now]
                  ELSE players
    /\ SetReceive("unlock")
    /\ call' = TaskCall("last_active")
    /\ ret' = NoId
    /\ UNCHANGED <<id_to_addr, addr_to_id, last_processed, panicked, now, issued,
                   removed, sent, lock, clientVars, remoteVars>>

\* the guard of the receive loop goes out of scope (server.rs:109)
Rx_unlock ==
    /\ tasks.receive.at = "unlock"
    /\ lock' = NoTask
    /\ SetReceive("recv_from")
    /\ call' = TaskCall("unlock")
    /\ ret' = NoId
    /\ UNCHANGED <<gameVars, now, issued, removed, sent, clientVars, remoteVars>>

\* interval.tick().await returns (server.rs:34)
Bc_tick ==
    /\ tasks.broadcast.at = "tick"
    /\ ~panicked
    /\ SetBroadcast("lock")
    /\ call' = Call("tick", NoAddr, NoInput)
    /\ ret' = NoId
    /\ UNCHANGED <<gameVars, now, issued, removed, sent, lock, clientVars, remoteVars>>

\* game_clone.lock().await (server.rs:36)
Bc_lock ==
    /\ tasks.broadcast.at = "lock"
    /\ lock = NoTask
    /\ lock' = "broadcast"
    /\ sent' = << >>
    /\ SetBroadcast("update_server_dropped")
    /\ call' = Call("lock", NoAddr, NoInput)
    /\ ret' = NoId
    /\ UNCHANGED <<gameVars, now, issued, removed, clientVars, remoteVars>>

\* variant of Bc_build that takes the addresses before it evicts
Bc_build_AddrsFirst ==
    /\ tasks.broadcast.at = "update_server_dropped"
    /\ LET g == update_server_dropped(TheGame, now)
       IN  /\ ~build_snapshot_panics(g)
           /\ SetGame(g)
           /\ \E before \in IterationOrders(DOMAIN players),
                 order \in IterationOrders(DOMAIN g.players),
                 elapsed \in Elapsed_as_millis :
                  tasks' = [tasks EXCEPT
                              !.broadcast =
                                  [at |-> "send_to",
                                   game_state |-> GameStateMsg(
                                       build_snapshot(g, order, elapsed), elapsed),
                                   active_players |-> active_player_addrs(TheGame, before)]]
    /\ call' = Call("build_snapshot", NoAddr, NoInput)
    /\ ret' = NoId
    /\ UNCHANGED <<now, issued, sent, lock, clientVars, remoteVars>>

\* update_server_dropped, build_snapshot and active_player_addrs
\* (server.rs:37-51): no await in between
Bc_build ==
    /\ tasks.broadcast.at = "update_server_dropped"
    /\ LET g == update_server_dropped(TheGame, now)
       IN  /\ ~build_snapshot_panics(g)
           /\ SetGame(g)
           /\ \E order \in IterationOrders(DOMAIN g.players),
                 elapsed \in Elapsed_as_millis :
                  tasks' = [tasks EXCEPT
                              !.broadcast =
                                  [at |-> "send_to",
                                   game_state |-> GameStateMsg(
                                       build_snapshot(g, order, elapsed), elapsed),
                                   active_players |-> active_player_addrs(g, order)]]
    /\ call' = Call("build_snapshot", NoAddr, NoInput)
    /\ ret' = NoId
    /\ UNCHANGED <<now, issued, sent, lock, clientVars, remoteVars>>

\* one socket.send_to(&payload, client_addr).await of
\* broadcast_snapshot_to_selected (server.rs:126-128)
Bc_send_to_step ==
    /\ tasks.broadcast.at = "send_to"
    /\ tasks.broadcast.active_players # << >>
    /\ LET a == Head(tasks.broadcast.active_players)
       IN  /\ sent' = Append(sent, Datagram(a, tasks.broadcast.game_state))
           /\ tasks' = [tasks EXCEPT !.broadcast.active_players = Tail(@)]
           /\ call' = Call("send_to", a, NoInput)
    /\ ret' = NoId
    /\ UNCHANGED <<gameVars, now, issued, removed, lock>>

\* the step while no client's socket is followed
Bc_send_to == Bc_send_to_step /\ UNCHANGED <<clientVars, remoteVars>>

\* the loop body ends and the guard of the broadcast task goes out of scope
\* (server.rs:55)
Bc_unlock ==
    /\ tasks.broadcast.at = "send_to"
    /\ tasks.broadcast.active_players = << >>
    /\ lock' = NoTask
    /\ tasks' = [tasks EXCEPT !.broadcast = TasksAtStart.broadcast]
    /\ call' = Call("unlock", NoAddr, NoInput)
    /\ ret' = NoId
    /\ UNCHANGED <<gameVars, now, issued, removed, sent, clientVars, remoteVars>>

NextLock ==
    \/ \E a \in Addrs : \E d \in ClientDatagrams(a) : Rx_recv_from(a, d)
    \/ Rx_lock
    \/ Rx_connect_player
    \/ Rx_send_id
    \/ Rx_send_state
    \/ Rx_handle_input
    \/ Rx_send_pong
    \/ Rx_last_active
    \/ Rx_unlock
    \/ Bc_tick
    \/ Bc_lock
    \/ Bc_build
    \/ Bc_send_to
    \/ Bc_unlock
    \/ Tick

SpecLock == Init /\ [][NextLock]_vars

\* the server without the Input arm: Connect, Ping and the ignored messages
ReceivedWithoutInput(addr) == { d \in ClientDatagrams(addr) : d.kind # "Input" }

NextServer ==
    \/ \E a \in Addrs : \E d \in ReceivedWithoutInput(a) : Rx_recv_from(a, d)
    \/ Rx_lock
    \/ Rx_connect_player
    \/ Rx_send_id
    \/ Rx_send_state
    \/ Rx_send_pong
    \/ Rx_last_active
    \/ Rx_unlock
    \/ Bc_tick
    \/ Bc_lock
    \/ Bc_build
    \/ Bc_send_to
    \/ Bc_unlock
    \/ Tick

SpecServer == Init /\ [][NextServer]_vars

\* the server with the handlers that build a snapshot or change what it
\* lists: the Connect and Input arms and the broadcast task
SnapshotDatagrams(addr) == { d \in ClientDatagrams(addr) : d.kind \in {"Connect", "Input"} }

NextSnapshot ==
    \/ \E a \in Addrs : \E d \in SnapshotDatagrams(a) : Rx_recv_from(a, d)
    \/ Rx_lock
    \/ Rx_connect_player
    \/ Rx_send_id
    \/ Rx_send_state
    \/ Rx_handle_input
    \/ Rx_unlock
    \/ Bc_tick
    \/ Bc_lock
    \/ Bc_build
    \/ Bc_send_to
    \/ Bc_unlock
    \/ Tick

SpecSnapshot == Init /\ [][NextSnapshot]_vars

(* ----------------------- operations on the client ---------------------- *)

\* the client clock advances by this much (a quarter of a second)
ClientTimeStep == ResyncAfter \div 2

\* the positions and acknowledged sequences a snapshot may carry for the
\* client's own entity: one at the least coordinates and one a step short of
\* the greatest, and every sequence the client may have issued
ServerPositions == { [x |-> PLAYER_SIZE, y |-> PLAYER_SIZE],
                     [x |-> BOARD_WIDTH - PLAYER_SIZE - 1,
                      y |-> BOARD_HEIGHT - PLAYER_SIZE - TOOL_BAR_HEIGHT - 1] }
ServerSequences == 0 .. MaxSequence
\* the keys pressed: A and D, which the clamps at the two positions above make
\* sensitive to their order
KeyDirections == {"Left", "Right"}

\* the id of the session the server opens first, the client's where the
\* client connects first, and the id of the one it opens second; the variable
\* interpolation follows interpolated_positions[RemoteId]
ClientId == 1
RemoteId == 2

NoPosition == [x |-> 0, y |-> 0]
NoState == [players |-> << >>, last_processed |-> EmptyMap, server_timestamp |-> 0]
ClientCall(name, input, server_position, server_sequence) ==
    [name |-> name, input |-> input, server_position |-> server_position,
     server_sequence |-> server_sequence, current_time |-> client_time,
     confirmed |-> last_confirmed_sequence, since |-> last_reconciliation_time,
     pending |-> pending_inputs, pos |-> my_pos]
NetCall(name, datagram, drop) == [name |-> name, datagram |-> datagram, drop |-> drop]
\* the record of an input created, of a snapshot poll and of a message poll
IssueCall(name, input, drop) ==
    [name |-> name, input |-> input, server_position |-> NoPosition,
     server_sequence |-> 0, current_time |-> client_time,
     confirmed |-> last_confirmed_sequence, since |-> last_reconciliation_time,
     pending |-> pending_inputs, pos |-> my_pos,
     datagram |-> InputMsg(input), drop |-> drop]
SnapshotCall(name, server_position, server_sequence, drop, state) ==
    [name |-> name, input |-> NoInput, server_position |-> server_position,
     server_sequence |-> server_sequence, current_time |-> client_time,
     confirmed |-> last_confirmed_sequence, since |-> last_reconciliation_time,
     pending |-> pending_inputs, pos |-> my_pos, drop |-> drop, state |-> state]
MessageCall(name, drop, id) ==
    [name |-> name, addr |-> MoveAddr, input |-> NoInput, live |-> {},
     drop |-> drop, id |-> id]

SetPrediction(ps) ==
    /\ next_sequence' = ps.next_sequence
    /\ pending_inputs' = ps.pending_inputs
    /\ position_history' = ps.position_history
    /\ last_confirmed_sequence' = ps.last_confirmed_sequence
    /\ last_confirmed_position' = ps.last_confirmed_position
    /\ last_reconciliation_time' = ps.last_reconciliation_time

SetNetwork(r) ==
    /\ delay_ms' = r.net.delay_ms
    /\ packet_loss' = r.net.packet_loss
    /\ delayed_packets' = r.net.delayed_packets
    /\ wire' = r.socket
    /\ UNCHANGED instant_now

\* what the receiving part of a frame reads and writes
TheClient ==
    [ps |-> ThePrediction, pos |-> my_pos, id |-> my_id, interpolation |-> interpolation]

SetClient(c) ==
    /\ SetPrediction(c.ps)
    /\ my_pos' = c.pos
    /\ my_id' = c.id
    /\ interpolation' = c.interpolation

\* variant of InputHandler_handle_input that leaves next_sequence as it was
InputHandler_handle_input_SameSequence(ps, pos, net, socket, dir, time, drop, jitter, instant) ==
    LET input == [dir |-> dir, sequence |-> ps.next_sequence,
                  timestamp |-> time \div TimeUnitsPerSecond]
        ps1 == [ps EXCEPT !.pending_inputs = Append(@, [sequence |-> ps.next_sequence,
                                                        input |-> input])]
        s == send_input(net, socket, input, drop, jitter, instant)
        r == apply_prediction(ps1, input, pos)
    IN  [ps |-> r.ps, pos |-> r.pos, net |-> s.net, socket |-> s.socket, input |-> input]

\* InputHandler::handle_input for one key that creates an input
\* (input.rs:72-86, and :106-120 for a key held down): the input takes
\* next_sequence and the clock's reading in whole seconds, is queued, handed to
\* send_input and predicted.  drop, jitter and instant are what send_input
\* draws and reads.
InputHandler_handle_input(ps, pos, net, socket, dir, time, drop, jitter, instant) ==
    LET input == [dir |-> dir, sequence |-> ps.next_sequence,
                  timestamp |-> time \div TimeUnitsPerSecond]
        ps1 == [ps EXCEPT !.pending_inputs = Append(@, [sequence |-> ps.next_sequence,
                                                        input |-> input]),
                          !.next_sequence = @ + 1]
        s == send_input(net, socket, input, drop, jitter, instant)
        r == apply_prediction(ps1, input, pos)
    IN  [ps |-> r.ps, pos |-> r.pos, net |-> s.net, socket |-> s.socket, input |-> input]

\* the entries of a GameState for an id, and
\* game_state.last_processed.get(id).copied().unwrap_or(0)
EntriesOf(state, id) == SelectSeq(state.players, LAMBDA e : e.id = id)
Acknowledged(state, id) ==
    IF id \in DOMAIN state.last_processed THEN state.last_processed[id] ELSE 0

\* the loop of client.rs:93-98 over the entries of a player that is not the
\* client's own
RECURSIVE AddPositions(_, _, _, _)
AddPositions(st, entries, state, timestamp) ==
    IF entries = << >> THEN st
    ELSE AddPositions(add_position(st, Head(entries).position, timestamp,
                                   Acknowledged(state, Head(entries).id)),
                      Tail(entries), state, timestamp)

\* the loop of client.rs:101-119 over the entries of the client's own id:
\* reconcile, then reapply_pending_inputs on the displayed position
RECURSIVE ReconcileOwn(_, _, _, _)
ReconcileOwn(c, entries, state, current_time) ==
    IF entries = << >> THEN c
    ELSE LET ps1 == reconcile(c.ps, Head(entries).position, Acknowledged(state, c.id),
                              current_time)
             r == reapply_pending_inputs(ps1, c.pos)
         IN  ReconcileOwn([c EXCEPT !.ps = r.ps, !.pos = r.pos], Tail(entries), state,
                          current_time)

\* the entries of the client's own id in a GameState: none while my_id is None
OwnEntries(c, state) == IF c.id = NoId THEN << >> ELSE EntriesOf(state, c.id)

\* What the client does with a GameState that try_receive_snapshot returned
\* (client.rs:80-119); current_time is the reading of get_time() at line 80.
\* retain (line 89) drops the InterpolationState of a player the snapshot does
\* not list, and entry(..).or_insert_with (line 95) creates a new one for a
\* player that has none.
process_snapshot(c, state, current_time) ==
    LET remote == EntriesOf(state, RemoteId)
        st == IF remote = << >> THEN InterpolationState_new
              ELSE IF c.id = RemoteId THEN c.interpolation
              ELSE AddPositions(c.interpolation, remote, state, F32Round(current_time))
    IN  ReconcileOwn([c EXCEPT !.interpolation = st], OwnEntries(c, state), state,
                     current_time)

\* what the client does with a ClientMessage that try_receive_message
\* returned (client.rs:125-135)
process_message(c, msg) ==
    IF msg.kind = "PlayerId" /\ c.id = NoId THEN [c EXCEPT !.id = msg.id] ELSE c

\* The receiving part of a frame (client.rs:79-136): try_receive_snapshot with
\* waiting in the socket's receive queue, the processing of what it returned,
\* try_receive_message after the datagrams of between have arrived, and the
\* processing of what that returned.  The second poll flushes no delayed
\* packet: those that had elapsed went with the first.
frame_receive(c, net, socket, waiting, between, instant, order, drop1, drop2, time) ==
    LET r1 == receive_data(net, socket, waiting, "snapshot", instant, order, drop1)
        c1 == IF r1.ret = None THEN c ELSE process_snapshot(c, r1.ret[1].state, time)
        r2 == receive_data(r1.net, r1.socket, r1.waiting \o between, "message", instant,
                           << >>, drop2)
        c2 == IF r2.ret = None THEN c1 ELSE process_message(c1, r2.ret[1])
    IN  [c |-> c2, net |-> r2.net, socket |-> r2.socket, waiting |-> r2.waiting,
         snapshot |-> r1.ret, message |-> r2.ret]

\* An input is created from a key in a frame (client.rs:74, input.rs:72-86)
\* with the jitter send_input draws.
Issue(name, dir, jitter) ==
    /\ \E drop \in simulate_network_conditions(TheNetwork) :
          LET r == InputHandler_handle_input(ThePrediction, my_pos, TheNetwork, wire, dir,
                                             client_time, drop, jitter, instant_now)
          IN  /\ SetPrediction(r.ps)
              /\ my_pos' = r.pos
              /\ SetNetwork(r)
              /\ call' = IssueCall(name, r.input, drop)
    /\ UNCHANGED <<serverVars, my_id, client_time, interpolationVars, inbox>>

\* queue q with its i-th datagram moved to the front
HeadFirst(q, i) == << q[i] >> \o SubSeq(q, 1, i - 1) \o SubSeq(q, i + 1, Len(q))

\* What may wait in the receive queue of the client's socket when it polls.
\* arriving holds the datagrams that reach the socket just before the poll;
\* those sent before them have arrived by then too.  When none arrives the
\* unread datagrams are all still on their way, or have arrived with any one
\* of them first: UDP keeps no order.
ReceiveQueues(arriving) ==
    IF arriving = << >>
    THEN { << >> } \cup { HeadFirst(inbox, i) : i \in 1 .. Len(inbox) }
    ELSE { inbox \o arriving }
\* the unread datagrams after a poll that found waiting and left left
Unread(arriving, waiting, left) ==
    left \o SubSeq(inbox \o arriving, Len(waiting) + 1, Len(inbox \o arriving))

\* The snapshot poll of a frame and what follows it (client.rs:79-119):
\* try_receive_snapshot and, when it returns a GameState, the processing of it
\* at the clock's reading.  The step is recorded under the name given when
\* the GameState lists the client's own id, so that reconcile was called.
Poll_snapshot(name, arriving) ==
    /\ \E waiting \in ReceiveQueues(arriving), drop \in simulate_network_conditions(TheNetwork),
          order \in Shuffles(ReadyCount(delayed_packets, instant_now)) :
          LET r == receive_data(TheNetwork, wire, waiting, "snapshot", instant_now, order,
                                drop)
              state == IF r.ret = None THEN NoState ELSE r.ret[1].state
              own == OwnEntries(TheClient, state)
              c == IF r.ret = None THEN TheClient
                   ELSE process_snapshot(TheClient, state, client_time)
          IN  /\ Len(c.ps.position_history) <= MaxReplayed
              /\ SetNetwork(r)
              /\ inbox' = Unread(arriving, waiting, r.waiting)
              /\ SetClient(c)
              /\ ret' = r.ret
              /\ call' = IF own = << >>
                         THEN SnapshotCall("try_receive_snapshot", NoPosition, 0, drop,
                                           state)
                         ELSE SnapshotCall(name, own[1].position,
                                           Acknowledged(state, my_id), drop, state)
    /\ UNCHANGED <<serverVars, client_time, frame_time>>

\* The message poll of a frame and what follows it (client.rs:124-136):
\* try_receive_message; a PlayerId sets my_id if it is None.
Poll_message(arriving) ==
    /\ \E waiting \in ReceiveQueues(arriving), drop \in simulate_network_conditions(TheNetwork),
          order \in Shuffles(ReadyCount(delayed_packets, instant_now)) :
          LET r == receive_data(TheNetwork, wire, waiting, "message", instant_now, order,
                                drop)
              c == IF r.ret = None THEN TheClient ELSE process_message(TheClient, r.ret[1])
          IN  /\ SetNetwork(r)
              /\ inbox' = Unread(arriving, waiting, r.waiting)
              /\ SetClient(c)
              /\ ret' = r.ret
              /\ call' = MessageCall("try_receive_message", drop,
                                     IF r.ret # None /\ r.ret[1].kind = "PlayerId"
                                     THEN r.ret[1].id ELSE NoId)
    /\ UNCHANGED <<serverVars, client_time, frame_time>>

\* one input created from a key (input.rs:72-86)
Key_input(dir) ==
    /\ next_sequence < MaxSequence
    /\ Len(position_history) < MaxPredicted
    /\ \E jitter \in Jitters : Issue("key_input", dir, jitter)
    /\ UNCHANGED ret

\* PredictionState::reconcile called with the clock's reading (client.rs:80,104)
Do_reconcile(server_position, server_sequence) ==
    /\ SetPrediction(reconcile(ThePrediction, server_position, server_sequence,
                               client_time))
    /\ call' = ClientCall("reconcile", NoInput, server_position, server_sequence)
    /\ UNCHANGED <<serverVars, my_id, remoteVars, ret, my_pos, client_time>>

\* PredictionState::reapply_pending_inputs on the displayed position
\* (client.rs:116)
Do_reapply_pending_inputs ==
    /\ Len(position_history) + Len(pending_inputs) <= MaxReapplied
    /\ LET r == reapply_pending_inputs(ThePrediction, my_pos)
       IN  /\ SetPrediction(r.ps)
           /\ my_pos' = r.pos
    /\ call' = ClientCall("reapply_pending_inputs", NoInput, NoPosition, 0)
    /\ UNCHANGED <<serverVars, my_id, remoteVars, ret, client_time>>

\* time passes: the next reading of get_time() is a quarter of a second later
ClientTick ==
    /\ client_time < MaxClientTicks * ClientTimeStep
    /\ client_time' = client_time + ClientTimeStep
    /\ call' = ClientCall("client_tick", NoInput, NoPosition, 0)
    /\ UNCHANGED <<serverVars, my_id, remoteVars, ret, predictionVars, my_pos>>

NextPrediction ==
    \/ \E d \in KeyDirections : Key_input(d)
    \/ \E p \in ServerPositions, s \in ServerSequences : Do_reconcile(p, s)
    \/ Do_reapply_pending_inputs
    \/ ClientTick

SpecPrediction == Init /\ [][NextPrediction]_vars

(* ---------------------- bin/client.rs: the frame loop ------------------- *)

\* the frame loop is followed with one key, D, and with snapshots that
\* acknowledge sequence 0, sequence 1, or one more than ResyncGap
FrameDirections == {"Right"}
FrameSequences == {0, 1, ResyncGap + 1}

\* the GameState of a server whose only session is the client's, at a
\* position with an acknowledged sequence; the session has no last_processed
\* entry before its first input (game.rs:95)
OwnSnapshot(position, sequence) ==
    GameStateMsg([players |-> << [id |-> ClientId, position |-> position,
                                  color |-> 16717591] >>,
                  last_processed |-> IF sequence = 0 THEN EmptyMap
                                     ELSE [i \in {ClientId} |-> sequence]], 0)

\* the datagrams the server may send the client in this state: the PlayerId
\* of its session and snapshots that hold it at the least coordinates and
\* acknowledge no input or one the client has issued
FrameArrivals ==
    { PlayerIdMsg(ClientId) }
    \cup { OwnSnapshot([x |-> PLAYER_SIZE, y |-> PLAYER_SIZE], s) :
                s \in { q \in FrameSequences : q = 0 \/ q < next_sequence } }

\* a frame in which input.rs:72-86 creates one input
Frame_input(dir) ==
    /\ next_sequence < MaxBurst
    /\ Len(position_history) < MaxReplayed
    /\ \E jitter \in Jitters : Issue("frame_input", dir, jitter)
    /\ UNCHANGED ret

\* the snapshot poll of a frame (client.rs:79-119) that a datagram of the
\* server reaches first
Frame_snapshot(datagram) == Poll_snapshot("frame_snapshot", << datagram >>)

\* the message poll of a frame (client.rs:124-136) that a datagram of the
\* server reaches first
Frame_message(datagram) == Poll_message(<< datagram >>)

NextClient ==
    \/ \E d \in FrameDirections : Frame_input(d)
    \/ \E d \in FrameArrivals : Frame_snapshot(d)
    \/ \E d \in FrameArrivals : Frame_message(d)
    \/ ClientTick

SpecClient == Init /\ [][NextClient]_vars

\* the entries of queue q whose sequence is greater than s, in order
Above(q, s) == SelectSeq(q, LAMBDA e : e.sequence > s)

(* ------------------ bin/client.rs: the interpolation buffer -------------- *)

\* frames are 2^-7 s apart; one more reading of the clock is
\* INTERPOLATION_DELAY after the first, where the target time is a timestamp
FrameStep == 2^22
FrameTimes == { k * FrameStep : k \in 0 .. MaxFrames } \cup { INTERPOLATION_DELAY }
\* the positions a snapshot may carry for the remote player and the
\* last_processed entries it may carry for it
RemotePositions == { [x |-> 100, y |-> 225], [x |-> 225, y |-> 100] }
RemoteSequences == 0 .. MaxRemoteSequence

\* client.rs:80 and :94-96: the frame, which has not processed a snapshot yet,
\* receives one that lists the remote player; get_time() is read again, t being
\* the reading, and the position is added with it and the last_processed entry
\* of the player's id
Remote_add_position(position, sequence, t) ==
    /\ call.name \in {"new", "frame"}
    /\ t >= client_time
    /\ client_time' = t
    /\ interpolation' = add_position(interpolation, position, F32Round(t), sequence)
    /\ call' = [name |-> "add_position", position |-> position,
                timestamp |-> F32Round(t), sequence |-> sequence]
    /\ ret' = None
    /\ UNCHANGED <<serverVars, predictionVars, my_pos, my_id, frame_time, networkVars>>

\* client.rs:166-168: the position to draw for the remote player, interpolated
\* at the reading the frame began with (client.rs:46)
Remote_get_interpolated_position ==
    /\ ret' = get_interpolated_position(interpolation, frame_time)
    /\ call' = [name |-> "get_interpolated_position", position |-> NoPosition,
                timestamp |-> frame_time, sequence |-> 0]
    /\ UNCHANGED <<serverVars, clientVars, interpolationVars, networkVars>>

\* a later frame begins: get_time() is read (client.rs:46)
Remote_frame(t) ==
    /\ t >= client_time
    /\ t > frame_time
    /\ client_time' = t
    /\ frame_time' = F32Round(t)
    /\ call' = [name |-> "frame", position |-> NoPosition, timestamp |-> F32Round(t),
                sequence |-> 0]
    /\ ret' = None
    /\ UNCHANGED <<serverVars, predictionVars, my_pos, my_id, interpolation, networkVars>>

NextInterpolation ==
    \/ \E p \in RemotePositions, q \in RemoteSequences, t \in FrameTimes :
          Remote_add_position(p, q, t)
    \/ Remote_get_interpolated_position
    \/ \E t \in FrameTimes : Remote_frame(t)

SpecInterpolation == Init /\ [][NextInterpolation]_vars

(* -------------------- bin/client.rs: the network layer ------------------- *)

\* the server's Game with the client's session alone, and with the session of
\* a second player whose input 1 it has applied
GameOfOne ==
    connect_player(Game_new, MoveAddr,
                   [pos |-> [x |-> PLAYER_SIZE, y |-> PLAYER_SIZE], color |-> 16717591,
                    id |-> ClientId, elapsed |-> 0], 0).g
GameOfTwo ==
    handle_input(connect_player(GameOfOne, RemoteAddr,
                                [pos |-> [x |-> BOARD_WIDTH - PLAYER_SIZE - 1,
                                          y |-> BOARD_HEIGHT - PLAYER_SIZE
                                                    - TOOL_BAR_HEIGHT - 1],
                                 color |-> 1572631, id |-> RemoteId, elapsed |-> 0], 0).g,
                 RemoteAddr, [dir |-> "Left", sequence |-> 1, timestamp |-> 0], 0, 0)

\* the settings client.rs:75-76 copies from the input handler and the
\* datagrams the server sends the client: the PlayerId of its session and the
\* snapshots of the two Games above
DelaySettings == {0, 10}
LossSettings == {0, 50, 100}
ServerDatagrams ==
    { PlayerIdMsg(ClientId),
      GameStateMsg(build_snapshot(GameOfOne, << MoveAddr >>, 0), 0),
      GameStateMsg(build_snapshot(GameOfTwo, << RemoteAddr, MoveAddr >>, 0), 0) }
NetTimeStep == 5

Net_settings(delay, loss) ==
    /\ delay_ms' = delay
    /\ packet_loss' = loss
    /\ call' = NetCall("settings", ConnectMsg, FALSE)
    /\ ret' = None
    /\ UNCHANGED <<serverVars, clientVars, interpolationVars, delayed_packets, wire,
                   inbox, instant_now>>

Net_send_connect ==
    /\ Len(wire) < MaxWire
    /\ SetNetwork(send_connect(TheNetwork, wire))
    /\ call' = NetCall("send_connect", ConnectMsg, FALSE)
    /\ ret' = None
    /\ UNCHANGED <<serverVars, clientVars, interpolationVars, inbox>>

Net_send_ping(timestamp) ==
    /\ Len(wire) < MaxWire
    /\ SetNetwork(send_ping(TheNetwork, wire, timestamp))
    /\ call' = NetCall("send_ping", PingMsg(timestamp), FALSE)
    /\ ret' = None
    /\ UNCHANGED <<serverVars, clientVars, interpolationVars, inbox>>

\* input.rs:72-86 with the network layer followed: the input is queued under
\* next_sequence, handed to send_input and predicted
Net_send_input(dir, jitter) ==
    /\ next_sequence < MaxNetInputs
    /\ Len(wire) < MaxWire
    /\ Len(delayed_packets) < MaxDelayed
    /\ Issue("send_input", dir, jitter)
    /\ ret' = None

\* NetworkClient::try_receive_snapshot and try_receive_message
Net_receive(poll) ==
    /\ Len(wire) + ReadyCount(delayed_packets, instant_now) <= MaxWire
    /\ \E drop \in simulate_network_conditions(TheNetwork),
          order \in Shuffles(ReadyCount(delayed_packets, instant_now)) :
           LET r == receive_data(TheNetwork, wire, inbox, poll, instant_now, order, drop)
           IN  /\ SetNetwork(r)
               /\ inbox' = r.waiting
               /\ ret' = r.ret
               /\ call' = NetCall(IF poll = "snapshot" THEN "try_receive_snapshot"
                                  ELSE "try_receive_message", ConnectMsg, drop)
    /\ UNCHANGED <<serverVars, clientVars, interpolationVars>>

\* a datagram of the server reaches the client's socket
Net_arrive(datagram) ==
    /\ Len(inbox) < MaxInbox
    /\ inbox' = Append(inbox, datagram)
    /\ call' = NetCall("arrive", datagram, FALSE)
    /\ ret' = None
    /\ UNCHANGED <<serverVars, clientVars, interpolationVars, delay_ms, packet_loss,
                   delayed_packets, wire, instant_now>>

Net_wait ==
    /\ instant_now < MaxNetTicks * NetTimeStep
    /\ instant_now' = instant_now + NetTimeStep
    /\ call' = NetCall("wait", ConnectMsg, FALSE)
    /\ ret' = None
    /\ UNCHANGED <<serverVars, clientVars, interpolationVars, delay_ms, packet_loss,
                   delayed_packets, wire, inbox>>

NextNetwork ==
    \/ \E d \in DelaySettings, l \in LossSettings : Net_settings(d, l)
    \/ Net_send_connect
    \/ \E t \in PingTimestamps : Net_send_ping(t)
    \/ \E j \in Jitters : Net_send_input("Right", j)
    \/ \E poll \in {"snapshot", "message"} : Net_receive(poll)
    \/ \E d \in ServerDatagrams : Net_arrive(d)
    \/ Net_wait

SpecNetwork == Init /\ [][NextNetwork]_vars

(* --------------------- network.rs: the delay queue ----------------------- *)

\* the greatest delay send_input can give a packet under the current setting
MaxJitteredDelay == delay_ms + 5
\* the last reading of the clock followed
DelayHorizon == MaxDelayTicks * NetTimeStep

\* the client after construction and the first copy of the settings
\* (client.rs:75-76), with a delay set and a loss of 0 or 50
InitDelay ==
    /\ players = Game_new.players
    /\ id_to_addr = Game_new.id_to_addr
    /\ addr_to_id = Game_new.addr_to_id
    /\ last_processed = Game_new.last_processed
    /\ panicked = Game_new.panicked
    /\ now = 0
    /\ issued = {}
    /\ removed = [a \in Addrs |-> NoSession]
    /\ call = NetCall("settings", ConnectMsg, FALSE)
    /\ ret = None
    /\ sent = << >>
    /\ lock = NoTask
    /\ tasks = TasksAtStart
    /\ next_sequence = PredictionState_new(ClientInitialPosition).next_sequence
    /\ pending_inputs = PredictionState_new(ClientInitialPosition).pending_inputs
    /\ position_history = PredictionState_new(ClientInitialPosition).position_history
    /\ last_confirmed_sequence =
           PredictionState_new(ClientInitialPosition).last_confirmed_sequence
    /\ last_confirmed_position =
           PredictionState_new(ClientInitialPosition).last_confirmed_position
    /\ last_reconciliation_time =
           PredictionState_new(ClientInitialPosition).last_reconciliation_time
    /\ my_pos = ClientInitialPosition
    /\ my_id = NoId
    /\ client_time = 0
    /\ interpolation = InterpolationState_new
    /\ frame_time = 0
    /\ delay_ms \in DelaySettings \ {0}
    /\ packet_loss \in LossSettings \ {100}
    /\ delayed_packets = NetworkClient_new.delayed_packets
    /\ wire = << >>
    /\ inbox = << >>
    /\ instant_now = 0

\* an input is created (input.rs:72-86) early enough for the delay send_input
\* gives it to elapse within the readings followed
Delay_send_input(jitter) ==
    /\ instant_now + MaxJitteredDelay <= DelayHorizon
    /\ Net_send_input("Right", jitter)

\* a receive poll; no datagram of the server is waiting
Delay_poll ==
    /\ inbox = << >>
    /\ \E poll \in {"snapshot", "message"} : Net_receive(poll)

Delay_wait ==
    /\ instant_now < DelayHorizon
    /\ instant_now' = instant_now + NetTimeStep
    /\ call' = NetCall("wait", ConnectMsg, FALSE)
    /\ ret' = None
    /\ UNCHANGED <<serverVars, clientVars, interpolationVars, delay_ms, packet_loss,
                   delayed_packets, wire, inbox>>

NextDelay ==
    \/ \E j \in Jitters : Delay_send_input(j)
    \/ Delay_poll
    \/ Delay_wait

SpecDelay == InitDelay /\ [][NextDelay]_vars

\* the client keeps polling and its clock keeps advancing
SpecDelayLive == SpecDelay /\ WF_vars(Delay_poll) /\ WF_vars(Delay_wait)

(* -------------------- game.rs: a history that fills ---------------------- *)

\* the sequence number of the next input of a session: a client numbers its
\* inputs 0, 1, 2, ... (as the loop of game.rs:283-285 does)
NextInputSequence(addr) ==
    IF addr \in DOMAIN addr_to_id /\ addr_to_id[addr] \in DOMAIN last_processed
    THEN last_processed[addr_to_id[addr]] + 1
    ELSE 0

\* the directions an input from this address with this sequence number may
\* have
HistoryDirections(addr, sequence) ==
    IF sequence < FreeInputs THEN {input.dir : input \in InputsFrom(addr)} ELSE {"Right"}

\* what Instant::now().elapsed().as_millis() may return to an input with
\* this sequence number: a pause is followed at the inputs that are free
HistoryElapsed(sequence) == IF sequence < FreeInputs THEN Elapsed_as_millis ELSE {0}

History_connect_player(addr) ==
    /\ addr \notin DOMAIN players
    /\ Do_connect_player(addr)

History_handle_input(addr) ==
    /\ addr \in DOMAIN players
    /\ NextInputSequence(addr) < MaxHistoryInputs
    /\ \A b \in DOMAIN players \ {addr} :
           Len(players[b].position_history) <= MaxOtherEntries
    /\ \E dir \in HistoryDirections(addr, NextInputSequence(addr)),
          elapsed \in HistoryElapsed(NextInputSequence(addr)) :
          LET input == [dir |-> dir, sequence |-> NextInputSequence(addr), timestamp |-> 0]
          IN  /\ SetGame(handle_input(TheGame, addr, input, now, elapsed))
              /\ call' = Call("handle_input", addr, input)
    /\ ret' = NoId
    /\ UNCHANGED <<now, issued, sent, clientVars, remoteVars, taskVars>>

History_disconnect_player(addr) ==
    /\ addr \in DOMAIN players
    /\ Do_disconnect_player(addr)

NextHistory ==
    \/ \E a \in Addrs : History_connect_player(a)
    \/ \E a \in Addrs : History_handle_input(a)
    \/ \E a \in Addrs : History_disconnect_player(a)

SpecHistory == Init /\ [][NextHistory]_vars

(* ----------------- the server's two tasks beside a client ---------------- *)

\* the server sends to the client while the client has fewer than this many
\* datagrams unread
MaxUnread == 2

\* socket.recv_from(..).await returns the i-th of the datagrams in flight to
\* the server, sent from addr (server.rs:61-64): the datagram is off the wire
\* and the receive loop goes on to game.lock().await
Wire_recv_from(addr, i) ==
    /\ tasks.receive.at = "recv_from"
    /\ ~panicked
    /\ i \in 1 .. Len(wire)
    /\ tasks' = [tasks EXCEPT !.receive = [at |-> "lock", kind |-> wire[i].kind,
                                           addr |-> addr, input |-> wire[i].input,
                                           id |-> NoId]]
    /\ wire' = SubSeq(wire, 1, i - 1) \o SubSeq(wire, i + 1, Len(wire))
    /\ call' = Call("recv_from", addr, wire[i].input)
    /\ ret' = NoId
    /\ UNCHANGED <<gameVars, now, issued, removed, sent, lock, clientVars,
                   interpolationVars, delay_ms, packet_loss, delayed_packets, inbox,
                   instant_now>>

\* socket.send_to hands the datagram to the network: one addressed to the
\* client joins those it has not read
Socket_send_to ==
    /\ inbox' = IF sent'[Len(sent')].to = MoveAddr
                THEN Append(inbox, sent'[Len(sent')].msg)
                ELSE inbox
    /\ Len(inbox') <= MaxUnread
    /\ UNCHANGED <<clientVars, interpolationVars, delay_ms, packet_loss, delayed_packets,
                   wire, instant_now>>

\* one send of a round of the broadcast task beside the client
\* (server.rs:126-128)
Bc_send_to_client == Bc_send_to_step /\ Socket_send_to

(* ------------------- a client and the server side by side --------------- *)

\* A client whose inputs the server applies in the order they were issued.
\* The run starts where the two first agree: the server has spawned the
\* client's session at one of the positions below and applied the client's
\* inputs 0 (Left) and 1 (Right), and the client has taken the snapshot that
\* acknowledges input 1.
SpawnCoordsX == {PLAYER_SIZE, PLAYER_SIZE + 3,
                 BOARD_WIDTH - PLAYER_SIZE - 4, BOARD_WIDTH - PLAYER_SIZE - 1}
SpawnCoordsY == {PLAYER_SIZE, PLAYER_SIZE + 3,
                 BOARD_HEIGHT - PLAYER_SIZE - TOOL_BAR_HEIGHT - 4,
                 BOARD_HEIGHT - PLAYER_SIZE - TOOL_BAR_HEIGHT - 1}
SpawnPositions == {[x |-> cx, y |-> cy] : cx \in SpawnCoordsX, cy \in SpawnCoordsY}
FirstInputs == << [dir |-> "Left", sequence |-> 0, timestamp |-> 0],
                 [dir |-> "Right", sequence |-> 1, timestamp |-> 0] >>

\* the server after connect_player and the two inputs
ServerAfterFirstInputs(spawn) ==
    LET g0 == connect_player(Game_new, MoveAddr,
                             [pos |-> spawn, color |-> 16717591, id |-> ClientId,
                                 elapsed |-> 0], 0).g
    IN  handle_input(handle_input(g0, MoveAddr, FirstInputs[1], 0, 0),
                     MoveAddr, FirstInputs[2], 0, 0)

\* the client after issuing the two inputs and taking the snapshot
ClientAfterFirstInputs(server_position) ==
    LET ps0 == PredictionState_new(ClientInitialPosition)
        ps1 == [ps0 EXCEPT !.pending_inputs =
                               Append(@, [sequence |-> 0, input |-> FirstInputs[1]]),
                           !.next_sequence = @ + 1]
        r1  == apply_prediction(ps1, FirstInputs[1], ClientInitialPosition)
        ps2 == [r1.ps EXCEPT !.pending_inputs =
                                 Append(@, [sequence |-> 1, input |-> FirstInputs[2]]),
                             !.next_sequence = @ + 1]
        r2  == apply_prediction(ps2, FirstInputs[2], r1.pos)
    IN  reapply_pending_inputs(reconcile(r2.ps, server_position, 1, 0), r2.pos)

InitMove ==
    \E spawn \in SpawnPositions :
        LET g == ServerAfterFirstInputs(spawn)
            c == ClientAfterFirstInputs(g.players[MoveAddr].position)
        IN  /\ players = g.players
            /\ id_to_addr = g.id_to_addr
            /\ addr_to_id = g.addr_to_id
            /\ last_processed = g.last_processed
            /\ panicked = g.panicked
            /\ now = 0
            /\ issued = {ClientId}
            /\ removed = [a \in Addrs |-> NoSession]
            /\ call = [name |-> "new", addr |-> NoAddr, input |-> NoInput, live |-> {}]
            /\ ret = NoId
            /\ sent = << >>
            /\ lock = NoTask
            /\ tasks = TasksAtStart
            /\ next_sequence = c.ps.next_sequence
            /\ pending_inputs = c.ps.pending_inputs
            /\ position_history = c.ps.position_history
            /\ last_confirmed_sequence = c.ps.last_confirmed_sequence
            /\ last_confirmed_position = c.ps.last_confirmed_position
            /\ last_reconciliation_time = c.ps.last_reconciliation_time
            /\ my_pos = c.pos
            /\ my_id = g.addr_to_id[MoveAddr]
            /\ client_time = 0
            /\ interpolation = InterpolationState_new
            /\ frame_time = 0
            /\ delay_ms = NetworkClient_new.delay_ms
            /\ packet_loss = NetworkClient_new.packet_loss
            /\ delayed_packets = NetworkClient_new.delayed_packets
            /\ wire = << >>
            /\ inbox = << >>
            /\ instant_now = 0

\* the client issues one more input (input.rs:72-86)
Move_issue(dir) ==
    /\ Len(pending_inputs) < MaxMoves
    /\ \E jitter \in Jitters : Issue("move_issue", dir, jitter)
    /\ UNCHANGED ret

\* the inputs the client has issued and the server has not applied yet
Undelivered == Above(pending_inputs, last_processed[addr_to_id[MoveAddr]])

\* The receive loop runs beside the client: recv_from returns the oldest
\* Input datagram in flight, and the lock, the Input arm and the release of
\* the guard follow as steps of their own.
NextMove ==
    \/ \E d \in Directions : Move_issue(d)
    \/ Wire_recv_from(MoveAddr, 1)
    \/ Rx_lock
    \/ Rx_handle_input
    \/ Rx_unlock

SpecMove == InitMove /\ [][NextMove]_vars

(* ------------- a client that stops issuing, the server answering --------- *)

\* the client issues at most this many inputs before it stops
MaxConvergeInputs == 2
\* the client's clock is followed for this many steps of three quarters of a
\* second, each past the half second of prediction.rs:76
MaxConvergeTicks == 1
ConvergeTimeStep == ResyncAfter + ClientTimeStep

\* The run starts after the server has spawned the client's session
\* (connect_player, server.rs) at the first of RandomDraws, as the receive
\* loop does for this address (ServerDraws), and the client, just constructed
\* (client.rs:21-42), has been told its id.  wire holds the Input datagrams in flight to the
\* server and inbox the snapshots the client has not read; the server's clock
\* stands still, so the session is never evicted.
InitConverge ==
    \E draw \in { d \in RandomDraws : d.pos = [x |-> PLAYER_SIZE, y |-> PLAYER_SIZE] } :
        LET g == connect_player(Game_new, MoveAddr,
                                [pos |-> draw.pos, color |-> draw.color, id |-> ClientId,
                                 elapsed |-> 0], 0).g
            ps == PredictionState_new(ClientInitialPosition)
        IN  /\ players = g.players
            /\ id_to_addr = g.id_to_addr
            /\ addr_to_id = g.addr_to_id
            /\ last_processed = g.last_processed
            /\ panicked = g.panicked
            /\ now = 0
            /\ issued = {ClientId}
            /\ removed = [a \in Addrs |-> NoSession]
            /\ call = [name |-> "new", addr |-> NoAddr, input |-> NoInput, live |-> {}]
            /\ ret = NoId
            /\ sent = << >>
            /\ lock = NoTask
            /\ tasks = TasksAtStart
            /\ next_sequence = ps.next_sequence
            /\ pending_inputs = ps.pending_inputs
            /\ position_history = ps.position_history
            /\ last_confirmed_sequence = ps.last_confirmed_sequence
            /\ last_confirmed_position = ps.last_confirmed_position
            /\ last_reconciliation_time = ps.last_reconciliation_time
            /\ my_pos = ClientInitialPosition
            /\ my_id = g.addr_to_id[MoveAddr]
            /\ client_time = 0
            /\ interpolation = InterpolationState_new
            /\ frame_time = 0
            /\ delay_ms = NetworkClient_new.delay_ms
            /\ packet_loss = NetworkClient_new.packet_loss
            /\ delayed_packets = NetworkClient_new.delayed_packets
            /\ wire = << >>
            /\ inbox = << >>
            /\ instant_now = 0

\* a key press (input.rs:72-86): the input is numbered, queued, sent and
\* predicted
Converge_issue(dir) ==
    /\ next_sequence < MaxConvergeInputs
    /\ \E jitter \in Jitters : Issue("converge_issue", dir, jitter)
    /\ UNCHANGED ret

\* the snapshot poll of a frame of the client (client.rs:79-119)
Converge_snapshot == Poll_snapshot("converge_snapshot", << >>)

\* the message poll of a frame of the client (client.rs:124-136)
Converge_message == Poll_message(<< >>)

\* time passes: the next reading of get_time() (client.rs:46, 80) is three
\* quarters of a second later
Converge_client_tick ==
    /\ client_time < MaxConvergeTicks * ConvergeTimeStep
    /\ client_time' = client_time + ConvergeTimeStep
    /\ call' = ClientCall("client_tick", NoInput, NoPosition, 0)
    /\ UNCHANGED <<serverVars, my_id, remoteVars, ret, predictionVars, my_pos>>

\* interval.tick().await returns (server.rs:34); a round starts while the
\* client has fewer than MaxUnread datagrams unread
Converge_bc_tick == Len(inbox) < MaxUnread /\ Bc_tick

\* The receive loop and the broadcast task run beside the client step by
\* step: recv_from returns one of the Input datagrams in flight, in any order.
NextConverge ==
    \/ \E d \in FrameDirections : Converge_issue(d)
    \/ \E i \in 1 .. MaxConvergeInputs : Wire_recv_from(MoveAddr, i)
    \/ Rx_lock
    \/ Rx_handle_input
    \/ Rx_unlock
    \/ Converge_bc_tick
    \/ Bc_lock
    \/ Bc_build
    \/ Bc_send_to_client
    \/ Bc_unlock
    \/ Converge_snapshot
    \/ Converge_message
    \/ Converge_client_tick

SpecConverge == InitConverge /\ [][NextConverge]_vars

(* ---------------- the client's id and the server's sessions ------------- *)

\* The client at MoveAddr beside the server's receive loop and broadcast
\* task.  The R key (client.rs:49-62) stops the pings, after which the
\* session times out, and on the next press sends a new Connect; the server
\* answers every Connect with a PlayerId datagram (server.rs:68-74).

\* the sends of the receive loop beside the client
Identity_send_id == Rx_send_id_step /\ Socket_send_to
Identity_send_state == Rx_send_state_step /\ Socket_send_to
Identity_send_pong == Rx_send_pong_step /\ Socket_send_to

\* the two polls of a frame of the client (client.rs:79-119, 124-136),
\* followed while a datagram is unread
Identity_snapshot == inbox # << >> /\ Poll_snapshot("identity_snapshot", << >>)
Identity_receive == inbox # << >> /\ Poll_message(<< >>)

\* the datagrams the client sends here: Connect and Ping
IdentityDatagrams(addr) == { d \in ClientDatagrams(addr) : d.kind \in {"Connect", "Ping"} }

NextIdentity ==
    \/ \E d \in IdentityDatagrams(MoveAddr) : Rx_recv_from(MoveAddr, d)
    \/ Rx_lock
    \/ Rx_connect_player
    \/ Identity_send_id
    \/ Identity_send_state
    \/ Identity_send_pong
    \/ Rx_last_active
    \/ Rx_unlock
    \/ Bc_tick
    \/ Bc_lock
    \/ Bc_build
    \/ Bc_send_to_client
    \/ Bc_unlock
    \/ Tick
    \/ Identity_snapshot
    \/ Identity_receive

SpecIdentity == Init /\ [][NextIdentity]_vars

(* --------------- a remote player as the client draws it ----------------- *)

\* the remote player issues at most this many inputs before it stops, and the
\* server sends a snapshot while the client has fewer than MaxRemoteUnread
\* unread
MaxRemoteInputs == 2
MaxRemoteUnread == 1

\* what the remote player sent before it stopped: Input datagrams numbered
\* from 0 (input.rs:72-86)
RemoteDirections == {"Left"}
RemoteRuns ==
    UNION { { [i \in 1 .. n |-> InputMsg([dir |-> f[i], sequence |-> i - 1,
                                          timestamp |-> 0])] :
                  f \in [1 .. n -> RemoteDirections] } : n \in 0 .. MaxRemoteInputs }

\* The run starts when the remote player has stopped: the server has spawned
\* the client's session and then the remote player's (connect_player), each
\* at the draw the receive loop follows for its address (ServerDraws), the
\* client has been told its id, the remote player's inputs are in flight in
\* wire, and the client has read no snapshot yet.
InitRemote ==
    \E draw \in { d \in RandomDraws : d.pos # [x |-> PLAYER_SIZE, y |-> PLAYER_SIZE] },
       run \in RemoteRuns :
        LET g == connect_player(GameOfOne, RemoteAddr,
                                [pos |-> draw.pos, color |-> draw.color, id |-> RemoteId,
                                 elapsed |-> 0], 0).g
            ps == PredictionState_new(ClientInitialPosition)
        IN  /\ players = g.players
            /\ id_to_addr = g.id_to_addr
            /\ addr_to_id = g.addr_to_id
            /\ last_processed = g.last_processed
            /\ panicked = g.panicked
            /\ now = 0
            /\ issued = {ClientId, RemoteId}
            /\ removed = [a \in Addrs |-> NoSession]
            /\ call = [name |-> "new", addr |-> NoAddr, input |-> NoInput, live |-> {}]
            /\ ret = None
            /\ sent = << >>
            /\ lock = NoTask
            /\ tasks = TasksAtStart
            /\ next_sequence = ps.next_sequence
            /\ pending_inputs = ps.pending_inputs
            /\ position_history = ps.position_history
            /\ last_confirmed_sequence = ps.last_confirmed_sequence
            /\ last_confirmed_position = ps.last_confirmed_position
            /\ last_reconciliation_time = ps.last_reconciliation_time
            /\ my_pos = ClientInitialPosition
            /\ my_id = g.addr_to_id[MoveAddr]
            /\ client_time = 0
            /\ interpolation = InterpolationState_new
            /\ frame_time = 0
            /\ delay_ms = NetworkClient_new.delay_ms
            /\ packet_loss = NetworkClient_new.packet_loss
            /\ delayed_packets = NetworkClient_new.delayed_packets
            /\ wire = run
            /\ inbox = << >>
            /\ instant_now = 0

\* A later frame of the client in which try_receive_snapshot returns a
\* snapshot (client.rs:45-170).  get_time() reads t1 at line 46 and t2 at
\* line 80; n of the unread datagrams have arrived when the frame polls.  The
\* snapshot is processed with t2, try_receive_message takes the datagram
\* behind it if there is one, and the remote player is drawn at the position
\* interpolated for t1 or, when there is none, at the snapshot's
\* (client.rs:166-169).
Remote_snapshot_frame(t1, t2, n) ==
    /\ t1 >= client_time
    /\ F32Round(t1) > frame_time
    /\ t2 >= t1
    /\ n \in 1 .. Len(inbox)
    /\ \E drop1, drop2 \in simulate_network_conditions(TheNetwork),
          order \in Shuffles(ReadyCount(delayed_packets, instant_now)) :
          LET r == frame_receive(TheClient, TheNetwork, wire, SubSeq(inbox, 1, n), << >>,
                                 instant_now, order, drop1, drop2, t2)
              state == IF r.snapshot = None THEN NoState ELSE r.snapshot[1].state
              listed == EntriesOf(state, RemoteId)
              interpolated == get_interpolated_position(r.c.interpolation, F32Round(t1))
          IN  /\ listed # << >>
              /\ SetNetwork(r)
              /\ inbox' = r.waiting \o SubSeq(inbox, n + 1, Len(inbox))
              /\ SetClient(r.c)
              /\ ret' = IF interpolated = None THEN Some(listed[1].position)
                        ELSE interpolated
              /\ call' = [name |-> "snapshot_frame", position |-> listed[1].position,
                          timestamp |-> F32Round(t2),
                          sequence |-> Acknowledged(state, RemoteId), state |-> state]
    /\ client_time' = t2
    /\ frame_time' = F32Round(t1)
    /\ UNCHANGED serverVars

\* interval.tick().await returns (server.rs:34); a round starts while the
\* client has fewer than MaxRemoteUnread datagrams unread
Remote_bc_tick == Len(inbox) < MaxRemoteUnread /\ Bc_tick

\* The receive loop and the broadcast task run beside the client step by
\* step: recv_from returns one of the remote player's Input datagrams in
\* flight, in any order.
NextRemote ==
    \/ \E i \in 1 .. MaxRemoteInputs : Wire_recv_from(RemoteAddr, i)
    \/ Rx_lock
    \/ Rx_handle_input
    \/ Rx_unlock
    \/ Remote_bc_tick
    \/ Bc_lock
    \/ Bc_build
    \/ Bc_send_to_client
    \/ Bc_unlock
    \/ \E t1, t2 \in FrameTimes : \E n \in 1 .. MaxRemoteUnread :
          Remote_snapshot_frame(t1, t2, n)

SpecRemote == InitRemote /\ [][NextRemote]_vars

(* ------------------ bin/client.rs: the two polls of a frame -------------- *)

\* what reaches the socket between the two polls of one frame: any of the
\* server's datagrams, in any order
ArrivingBetween ==
    UNION { [1 .. n -> ServerDatagrams] : n \in 0 .. MaxInbox }

\* a datagram of the server reaches the client's socket
Frame_arrive(datagram) ==
    /\ Len(inbox) < MaxInbox
    /\ inbox' = Append(inbox, datagram)
    /\ call' = [name |-> "arrive", between |-> << datagram >>]
    /\ ret' = None
    /\ UNCHANGED <<serverVars, clientVars, interpolationVars, delay_ms, packet_loss,
                   delayed_packets, wire, instant_now>>

\* the receiving part of one frame (client.rs:79-136): try_receive_snapshot
\* and the processing of the snapshot, then try_receive_message, whose
\* PlayerId sets my_id if it is None
Frame_polls(between) ==
    /\ Len(inbox) + Len(between) <= MaxInbox
    /\ \E drop1, drop2 \in simulate_network_conditions(TheNetwork),
          order \in Shuffles(ReadyCount(delayed_packets, instant_now)) :
          LET r == frame_receive(TheClient, TheNetwork, wire, inbox, between, instant_now,
                                 order, drop1, drop2, client_time)
          IN  /\ SetNetwork(r)
              /\ inbox' = r.waiting
              /\ SetClient(r.c)
              /\ ret' = r.message
    /\ call' = [name |-> "polls", between |-> between]
    /\ UNCHANGED <<serverVars, client_time, frame_time>>

NextFrame ==
    \/ \E d \in DelaySettings, l \in LossSettings : Net_settings(d, l)
    \/ \E d \in ServerDatagrams : Frame_arrive(d)
    \/ \E b \in ArrivingBetween : Frame_polls(b)

SpecFrame == Init /\ [][NextFrame]_vars

(* ------------------------ properties of the Game ------------------------ *)

IdOf(a) == IF a \in DOMAIN addr_to_id THEN addr_to_id[a] ELSE NoId

\* the index entries and the last_processed entry of address a are as before
EntriesUnchanged(a) ==
    /\ a \in DOMAIN addr_to_id' /\ a \in DOMAIN addr_to_id
    /\ addr_to_id'[a] = addr_to_id[a]
    /\ addr_to_id[a] \in DOMAIN id_to_addr'
    /\ id_to_addr'[addr_to_id[a]] = a
    /\ (addr_to_id[a] \in DOMAIN last_processed') = (addr_to_id[a] \in DOMAIN last_processed)
    /\ addr_to_id[a] \in DOMAIN last_processed =>
           last_processed'[addr_to_id[a]] = last_processed[addr_to_id[a]]

\* the session of address a is live before and after, and entirely as before
SessionUnchanged(a) ==
    /\ a \in DOMAIN players' /\ a \in DOMAIN players
    /\ players'[a] = players[a]
    /\ EntriesUnchanged(a)

\* address a has no session and its id no index entry after the step
SessionGone(a) ==
    /\ a \notin DOMAIN players'
    /\ a \notin DOMAIN addr_to_id'
    /\ IdOf(a) \notin DOMAIN id_to_addr'
    /\ IdOf(a) \notin DOMAIN last_processed'

\* C1: connect_player(addr) on an address that already has a session returns
\* the id bound to addr and changes no session, neither index map, nor
\* last_processed.
C1_ConnectIdempotent ==
    [][ (call'.name = "connect_player" /\ call'.addr \in DOMAIN players)
        => /\ ret' = IdOf(call'.addr)
           /\ ret' # NoId
           /\ players' = players
           /\ id_to_addr' = id_to_addr
           /\ addr_to_id' = addr_to_id
           /\ last_processed' = last_processed ]_vars

\* connect_player was called for a session that had already applied an input
C1_Witness ==
    /\ call.name = "connect_player"
    /\ call.addr \in call.live
    /\ call.addr \in DOMAIN players
    /\ ret = IdOf(call.addr)
    /\ Len(players[call.addr].position_history) >= 2

\* C2: every live session's position lies within the board: PLAYER_SIZE <= x
\* <= BOARD_WIDTH - PLAYER_SIZE and PLAYER_SIZE <= y <= BOARD_HEIGHT -
\* PLAYER_SIZE - TOOL_BAR_HEIGHT.
C2_PositionInBounds ==
    \A a \in DOMAIN players :
        /\ PLAYER_SIZE <= players[a].position.x
        /\ players[a].position.x <= BOARD_WIDTH - PLAYER_SIZE
        /\ PLAYER_SIZE <= players[a].position.y
        /\ players[a].position.y <= BOARD_HEIGHT - PLAYER_SIZE - TOOL_BAR_HEIGHT

\* a move to the right was clamped at the right edge of the board
C2_Witness ==
    /\ call.name = "handle_input"
    /\ call.input.dir = "Right"
    /\ call.addr \in DOMAIN players
    /\ players[call.addr].position.x = BOARD_WIDTH - PLAYER_SIZE
    /\ Len(players[call.addr].position_history) >= 2

\* position q is position p moved by PLAYER_SPEED along the axis of dir,
\* stopped at the board bound, the other coordinate kept
MovedBy(p, q, dir) ==
    CASE dir = "Up" ->
           /\ q.x = p.x
           /\ q.y = (IF p.y - PLAYER_SPEED < PLAYER_SIZE THEN PLAYER_SIZE
                     ELSE p.y - PLAYER_SPEED)
      [] dir = "Down" ->
           /\ q.x = p.x
           /\ q.y = (IF p.y + PLAYER_SPEED > BOARD_HEIGHT - PLAYER_SIZE - TOOL_BAR_HEIGHT
                     THEN BOARD_HEIGHT - PLAYER_SIZE - TOOL_BAR_HEIGHT
                     ELSE p.y + PLAYER_SPEED)
      [] dir = "Left" ->
           /\ q.y = p.y
           /\ q.x = (IF p.x - PLAYER_SPEED < PLAYER_SIZE THEN PLAYER_SIZE
                     ELSE p.x - PLAYER_SPEED)
      [] dir = "Right" ->
           /\ q.y = p.y
           /\ q.x = (IF p.x + PLAYER_SPEED > BOARD_WIDTH - PLAYER_SIZE
                     THEN BOARD_WIDTH - PLAYER_SIZE
                     ELSE p.x + PLAYER_SPEED)

\* C3: handle_input(addr, input) on a live session sets last_processed[id of
\* addr] to input.sequence, moves the position by PLAYER_SPEED along the axis
\* of input.dir (clamped), appends the new position as the newest history
\* entry, and changes no other session, history or last_processed entry.
C3_HandleInputEffect ==
    [][ (call'.name = "handle_input" /\ call'.addr \in DOMAIN players)
        => LET a == call'.addr
               old == players[a].position_history
               new == players'[a].position_history
           IN  /\ a \in DOMAIN players'
               /\ IdOf(a) \in DOMAIN last_processed'
               /\ last_processed'[IdOf(a)] = call'.input.sequence
               /\ MovedBy(players[a].position, players'[a].position, call'.input.dir)
               /\ Len(new) >= 1
               /\ new[Len(new)].position = players'[a].position
               /\ SubSeq(new, 1, Len(new) - 1) =
                      (IF Len(old) < MAX_POSITION_HISTORY THEN old ELSE Tail(old))
               /\ DOMAIN players' = DOMAIN players
               /\ DOMAIN last_processed' = DOMAIN last_processed \cup {IdOf(a)}
               /\ \A b \in DOMAIN players \ {a} : SessionUnchanged(b) ]_vars

\* an input was applied to one session while another session was live
C3_Witness ==
    /\ call.name = "handle_input"
    /\ call.addr \in call.live
    /\ call.addr \in DOMAIN players
    /\ IdOf(call.addr) \in DOMAIN last_processed
    /\ Len(players[call.addr].position_history) >= 2
    /\ players[call.addr].position # players[call.addr].position_history[1].position
    /\ DOMAIN players # {call.addr}

\* C4: handle_input and disconnect_player on an address with no live session
\* change nothing (so a second disconnect_player leaves the state of the first).
C4_UnknownAddrNoOp ==
    [][ (call'.name \in {"handle_input", "disconnect_player"}
            /\ call'.addr \notin DOMAIN players)
        => /\ players' = players
           /\ id_to_addr' = id_to_addr
           /\ addr_to_id' = addr_to_id
           /\ last_processed' = last_processed ]_vars

\* disconnect_player was called again for a session just disconnected, while
\* another session was live
C4_Witness ==
    /\ call.name = "disconnect_player"
    /\ call.addr \notin call.live
    /\ removed[call.addr].id # NoId
    /\ DOMAIN players # {}

\* an input arrived for an address whose session had been removed
C4_WitnessInput ==
    /\ call.name = "handle_input"
    /\ call.addr \notin call.live
    /\ removed[call.addr].id # NoId

\* what update_server_dropped does when it evicts exactly the sessions in Out
EvictsExactly(Out) ==
    /\ DOMAIN players' = DOMAIN players \ Out
    /\ \A a \in DOMAIN players \cap Out : SessionGone(a)
    /\ \A a \in DOMAIN players \ Out : SessionUnchanged(a)

\* C5: update_server_dropped evicts a session iff the time since its
\* last_active exceeds TIMEOUT, and leaves every other session unchanged.
C5_EvictsIffExceeds ==
    [][ call'.name = "update_server_dropped"
        => EvictsExactly({a \in DOMAIN players : now - players[a].last_active > TIMEOUT}) ]_vars

\* what update_server_dropped does instead: a session is evicted iff the time
\* since its last_active is at least TIMEOUT
EvictsIffAtLeast ==
    [][ call'.name = "update_server_dropped"
        => EvictsExactly({a \in DOMAIN players : now - players[a].last_active >= TIMEOUT}) ]_vars

\* update_server_dropped evicted one session and kept another
EvictedOneKeptOne ==
    /\ call.name = "update_server_dropped"
    /\ call.live \ DOMAIN players # {}
    /\ DOMAIN players # {}

\* C6: disconnect_player(addr) on a live session removes addr from players and
\* addr_to_id and its id from id_to_addr and last_processed, and changes no
\* other session or index entry.
C6_DisconnectEffect ==
    [][ (call'.name = "disconnect_player" /\ call'.addr \in DOMAIN players)
        => /\ SessionGone(call'.addr)
           /\ DOMAIN players' = DOMAIN players \ {call'.addr}
           /\ DOMAIN addr_to_id' = DOMAIN addr_to_id \ {call'.addr}
           /\ DOMAIN id_to_addr' = DOMAIN id_to_addr \ {IdOf(call'.addr)}
           /\ DOMAIN last_processed' = DOMAIN last_processed \ {IdOf(call'.addr)}
           /\ \A b \in DOMAIN players \ {call'.addr} : SessionUnchanged(b) ]_vars

\* a session was disconnected while another one, which has a last_processed
\* entry, stayed
C6_Witness ==
    /\ call.name = "disconnect_player"
    /\ call.addr \in call.live
    /\ removed[call.addr].id # NoId
    /\ \E b \in DOMAIN players : IdOf(b) \in DOMAIN last_processed

\* C7: a player whose session was removed and who connects again before the
\* grace period has expired (here: at the very clock reading of the removal)
\* gets back the id and the color of the removed session.
C7_ReconnectRestores ==
    [][ (call'.name = "connect_player" /\ removed[call'.addr].id # NoId)
        => /\ ret' = removed[call'.addr].id
           /\ call'.addr \in DOMAIN players'
           /\ players'[call'.addr].color = removed[call'.addr].color ]_vars

\* C8: a new session's id differs from every id issued before, live or not,
\* and no two live sessions share an id.
C8_FreshIds ==
    /\ [][ (call'.name = "connect_player" /\ call'.addr \notin DOMAIN players)
           => /\ ret' # NoId
              /\ ret' \notin issued
              /\ \A a \in Addrs : removed[a].id # ret'
              /\ call'.addr \in DOMAIN addr_to_id'
              /\ addr_to_id'[call'.addr] = ret' ]_vars
    /\ [](\A a, b \in DOMAIN addr_to_id : a # b => addr_to_id[a] # addr_to_id[b])

\* an address connected again after its session had been removed
C8_Witness ==
    /\ call.name = "connect_player"
    /\ call.addr \notin call.live
    /\ ret = IdOf(call.addr)
    /\ Cardinality(issued) >= 2
    /\ Cardinality(DOMAIN players) = 1

(* ----------------------- properties of the server ----------------------- *)

\* C9: for every Connect datagram the server sends to the sender first a
\* PlayerId message with the id bound to the sender's address and then a
\* snapshot that contains that id. With the Connect arm followed across its
\* two send_to(..).await: nothing is sent before the id message, only the id
\* message before the snapshot, and when the arm ends the two datagrams for
\* the sender are the id message and then a snapshot listing the id.
C9_ConnectReplyOrder ==
    (lock = "receive" /\ tasks.receive.kind = "Connect"
         /\ tasks.receive.at # "connect_player")
        => LET a == tasks.receive.addr
               id_msg == Datagram(a, PlayerIdMsg(addr_to_id[a]))
           IN  /\ a \in DOMAIN addr_to_id
               /\ tasks.receive.at = "send_id" => sent = << >>
               /\ tasks.receive.at = "send_state"
                      => sent = << id_msg >> /\ ~build_snapshot_panics(TheGame)
               /\ tasks.receive.at = "unlock"
                      => /\ Len(sent) = 2
                         /\ sent[1] = id_msg
                         /\ sent[2].to = a
                         /\ sent[2].msg.kind = "GameState"
                         /\ \E i \in 1 .. Len(sent[2].msg.state.players) :
                                sent[2].msg.state.players[i].id = addr_to_id[a]

\* a second client connected while the broadcast task waits for the lock: it
\* was sent its id, then a snapshot listing both sessions
C9_Witness ==
    /\ lock = "receive"
    /\ tasks.receive.kind = "Connect"
    /\ tasks.receive.at = "unlock"
    /\ tasks.broadcast.at = "lock"
    /\ Len(sent) = 2
    /\ sent[1].msg = PlayerIdMsg(tasks.receive.id)
    /\ sent[2].msg.kind = "GameState"
    /\ Len(sent[2].msg.state.players) = 2

(* --------------------- properties of the prediction -------------------- *)

\* C10: reconcile called with a server_sequence that is not greater than
\* last_confirmed_sequence (in particular a second call with the sequence
\* already confirmed) leaves last_confirmed_sequence, last_confirmed_position,
\* last_reconciliation_time, pending_inputs and position_history unchanged.
C10_ReconcileOnlyNewer ==
    [][ (call'.name = "reconcile" /\ call'.server_sequence <= last_confirmed_sequence)
        => /\ last_confirmed_sequence' = last_confirmed_sequence
           /\ last_confirmed_position' = last_confirmed_position
           /\ last_reconciliation_time' = last_reconciliation_time
           /\ pending_inputs' = pending_inputs
           /\ position_history' = position_history ]_vars

\* a second reconcile with the sequence already confirmed, at a later clock
\* reading and with another position, while inputs are pending
C10_Witness ==
    /\ call.name = "reconcile"
    /\ call.confirmed > 0
    /\ call.server_sequence = call.confirmed
    /\ call.current_time > last_reconciliation_time
    /\ call.server_position # last_confirmed_position
    /\ pending_inputs # << >>
    /\ position_history # << >>

\* a reconcile, alone or in a snapshot frame, that is accepted
IsReconcile == call'.name \in {"reconcile", "frame_snapshot"}
Accepted == IsReconcile /\ call'.server_sequence > last_confirmed_sequence
GapExceeded == call'.server_sequence - last_confirmed_sequence > ResyncGap
TimeExceeded == call'.current_time - last_reconciliation_time > ResyncAfter

\* C11: an accepted reconcile(server_position, s, now) that meets no
\* hard-resync condition sets the confirmed baseline to (s, server_position),
\* leaves no pending input and no predicted-history entry with sequence <= s,
\* and keeps the pending inputs with sequence > s in their order.
C11_AcceptedReconcilePurges ==
    [][ (Accepted /\ ~GapExceeded /\ ~TimeExceeded)
        => /\ last_confirmed_sequence' = call'.server_sequence
           /\ last_confirmed_position' = call'.server_position
           /\ pending_inputs' = Above(pending_inputs, call'.server_sequence)
           /\ \A i \in 1 .. Len(position_history') :
                  position_history'[i].sequence > call'.server_sequence ]_vars

\* C12: an accepted reconcile whose server_sequence exceeds the sequence
\* confirmed before by more than 5 clears all pending inputs and all
\* predicted-history entries, however little time has passed since the
\* reconciliation before.
C12_GapClearsAll ==
    [][ (Accepted /\ GapExceeded)
        => /\ pending_inputs' = << >>
           /\ position_history' = << >> ]_vars

\* C13: an accepted reconcile more than 0.5 s after last_reconciliation_time
\* empties pending_inputs and position_history, inputs with a sequence greater
\* than the acknowledged one included; one within 0.5 s keeps the pending
\* inputs with a sequence greater than the acknowledged one.
C13_TimeResync ==
    [][ Accepted
        => IF TimeExceeded
           THEN pending_inputs' = << >> /\ position_history' = << >>
           ELSE pending_inputs' = Above(pending_inputs, call'.server_sequence) ]_vars

\* a snapshot accepted more than 0.5 s after the accepted one before it
\* dropped an input with a sequence greater than the acknowledged one
C13_Witness ==
    /\ call.name = "frame_snapshot"
    /\ call.server_sequence > call.confirmed
    /\ call.confirmed > 0
    /\ call.current_time - call.since > ResyncAfter
    /\ Above(call.pending, call.server_sequence) # << >>
    /\ pending_inputs = << >>
    /\ position_history = << >>

\* the clamped moves of the inputs of queue q applied in order to position pos
RECURSIVE Replay(_, _)
Replay(pos, q) ==
    IF q = << >> THEN pos
    ELSE Replay(ClientMove(pos, Head(q).input.dir), Tail(q))

\* the state test_reapply_pending_inputs builds: a new PredictionState with
\* the given baseline and inputs of the given directions, numbered from 1,
\* pushed on pending_inputs
PendingOf(dirs) ==
    [i \in 1 .. Len(dirs) |->
        [sequence |-> i, input |-> [dir |-> dirs[i], sequence |-> i, timestamp |-> 0]]]
WithPending(baseline, dirs) ==
    [PredictionState_new(baseline) EXCEPT !.pending_inputs = PendingOf(dirs)]

\* C14: reapply_pending_inputs sets the displayed position to
\* last_confirmed_position with the clamped move of every pending input
\* applied in queue order, whatever the displayed position was before; from
\* (100,100) with [Right, Right, Down] it gives (110,105).
C14_ReapplyFromBaseline ==
    /\ [][ call'.name = "reapply_pending_inputs"
           => my_pos' = Replay(last_confirmed_position, pending_inputs) ]_vars
    /\ [](reapply_pending_inputs(WithPending([x |-> 100, y |-> 100],
                                             <<"Right", "Right", "Down">>),
                                 [x |-> 200, y |-> 200]).pos = [x |-> 110, y |-> 105])

\* reapply_pending_inputs replayed two or more inputs from a baseline that
\* differs from the position displayed before, where a replay on top of that
\* position, or one with the first two inputs swapped, would have ended
\* elsewhere
C14_Witness ==
    /\ call.name = "reapply_pending_inputs"
    /\ Len(pending_inputs) >= 2
    /\ call.pos # last_confirmed_position
    /\ my_pos # Replay(call.pos, pending_inputs)
    /\ my_pos # Replay(last_confirmed_position,
                       << pending_inputs[2], pending_inputs[1] >>
                           \o SubSeq(pending_inputs, 3, Len(pending_inputs)))

\* C15: the client's prediction move and the server's move are the same
\* function of an in-bounds position and a direction: the displayed position
\* is within the bounds, apply_prediction moves it in every direction to where
\* handle_input moves a session at that position, and once the server has
\* applied every input the client issued, in order, from the same start, the
\* two are at the same position.
C15_SameMove ==
    /\ my_pos.x >= PLAYER_SIZE /\ my_pos.x <= BOARD_WIDTH - PLAYER_SIZE
    /\ my_pos.y >= PLAYER_SIZE /\ my_pos.y <= BOARD_HEIGHT - PLAYER_SIZE - TOOL_BAR_HEIGHT
    /\ \A d \in Directions :
           apply_prediction(ThePrediction, [NoInput EXCEPT !.dir = d], my_pos).pos
               = handle_input([TheGame EXCEPT !.players[MoveAddr].position = my_pos],
                              MoveAddr, [NoInput EXCEPT !.dir = d], now, 0)
                     .players[MoveAddr].position
    /\ Undelivered = << >> => my_pos = players[MoveAddr].position

\* the server has applied three further inputs of the client, the last of
\* them cut short by the lower border
C15_Witness ==
    /\ call.name = "handle_input"
    /\ Undelivered = << >>
    /\ Len(pending_inputs) = MaxMoves
    /\ call.input.dir = "Down"
    /\ my_pos.y = BOARD_HEIGHT - PLAYER_SIZE - TOOL_BAR_HEIGHT
    /\ my_pos.y - position_history[Len(position_history)].pos.y < PLAYER_SPEED

\* the inputs the client has issued by the end of the frame that the server
\* has not acknowledged: those queued before the frame and the one the frame
\* created, with a sequence greater than every acknowledged sequence received
FrameIssued ==
    IF call'.name = "frame_input"
    THEN Append(call'.pending, [sequence |-> call'.input.sequence, input |-> call'.input])
    ELSE call'.pending
FrameAcknowledged ==
    IF call'.name = "frame_snapshot" /\ call'.server_sequence > last_confirmed_sequence
    THEN call'.server_sequence
    ELSE last_confirmed_sequence

\* the positions the frame may end at: the baseline with the unacknowledged
\* inputs replayed; while the client holds 0 as the acknowledged sequence,
\* which it does from construction, the input of sequence 0 may count as
\* acknowledged or not
FrameExpected ==
    { Replay(last_confirmed_position', Above(FrameIssued, FrameAcknowledged)) }
        \cup IF FrameAcknowledged = 0
             THEN { Replay(last_confirmed_position', FrameIssued) }
             ELSE { }

\* C16: at the end of every client frame the displayed position is the
\* confirmed baseline with the moves of all issued, unacknowledged inputs
\* replayed on top in sequence order; no snapshot leaves it at the raw server
\* position while such inputs exist.
C16_BaselinePlusReplay ==
    [][ call'.name \in {"frame_input", "frame_snapshot"}
        => my_pos' \in FrameExpected ]_vars

\* C17: after reconcile is called with an acknowledged sequence s, one the
\* client has issued, no input with a sequence <= s remains in pending_inputs,
\* from the first input of a session (sequence 0) on.
C17_AcknowledgedDiscarded ==
    [][ (call'.name = "reconcile" /\ call'.server_sequence < next_sequence)
        => \A i \in 1 .. Len(pending_inputs') :
               pending_inputs'[i].sequence > call'.server_sequence ]_vars

(* -------------------- properties of the interpolation ------------------- *)

\* the sequences of a buffer increase strictly from oldest to newest
StrictlyIncreasing(h) ==
    \A i \in 1 .. Len(h) - 1 : h[i].sequence < h[i + 1].sequence

\* C18: add_position with a sequence <= last_sequence changes nothing
\* (position_history, last_sequence and last_position stay as they were), and
\* the sequences stored in the buffer are strictly increasing from oldest to
\* newest in every reachable state.
C18_MonotonicGate ==
    /\ [][ (call'.name = "add_position" /\ call'.sequence <= interpolation.last_sequence)
           => interpolation' = interpolation ]_vars
    /\ [](StrictlyIncreasing(interpolation.position_history))

\* add_position was called on a buffer of two or more samples with a sequence
\* it had accepted before and a position other than the last one, and left
\* the buffer alone
C18_Witness ==
    /\ call.name = "add_position"
    /\ call.sequence > 0
    /\ call.sequence <= interpolation.last_sequence
    /\ Len(interpolation.position_history) >= 2
    /\ interpolation.last_position # Some(call.position)
    /\ \A i \in 1 .. Len(interpolation.position_history) :
           interpolation.position_history[i].timestamp < call.timestamp

\* v lies between a and b
Between(v, a, b) == (a <= v /\ v <= b) \/ (b <= v /\ v <= a)

\* the target time of the last get_interpolated_position
TargetTime == F32Round(frame_time - interpolation.interpolation_delay)

\* C19: get_interpolated_position never extrapolates: nothing with no sample,
\* the sample with one; with two or more the oldest sample's position when
\* the target time precedes every sample, the newest sample's when it is at
\* or past the newest, and otherwise a position whose coordinates lie between
\* those of the two samples that bracket the target time.
C19_NoExtrapolation ==
    call.name = "get_interpolated_position"
    => LET h == interpolation.position_history
           n == Len(h)
       IN  /\ n = 0 => ret = None
           /\ n = 1 => ret = Some(h[1].position)
           /\ n >= 2 =>
                  IF \A i \in 1 .. n : TargetTime < h[i].timestamp
                  THEN ret = Some(h[1].position)
                  ELSE IF TargetTime >= h[n].timestamp
                  THEN ret = Some(h[n].position)
                  ELSE /\ ret # None
                       /\ \E i \in 1 .. n - 1 :
                              /\ h[i].timestamp <= TargetTime
                              /\ TargetTime < h[i + 1].timestamp
                              /\ Between(ret[1].x, h[i].position.x, h[i + 1].position.x)
                              /\ Between(ret[1].y, h[i].position.y, h[i + 1].position.y)

\* a position was interpolated strictly between two differing samples of a
\* buffer of three, the bracketing pair being the newer two
C19_Witness ==
    /\ call.name = "get_interpolated_position"
    /\ Len(interpolation.position_history) = 3
    /\ interpolation.position_history[2].timestamp <= TargetTime
    /\ TargetTime < interpolation.position_history[3].timestamp
    /\ ret # None
    /\ ret[1].x # interpolation.position_history[2].position.x
    /\ ret[1].x # interpolation.position_history[3].position.x
    /\ ret[1].y # interpolation.position_history[2].position.y
    /\ ret[1].y # interpolation.position_history[3].position.y

(* ---------------------- properties of the network layer ------------------ *)

IsSend == call'.name \in {"send_connect", "send_ping", "send_input"}
IsPoll == call'.name \in {"try_receive_snapshot", "try_receive_message"}

\* C20: with packet_loss at 100 every packet handed to the network layer for
\* sending, Connect, Ping and Input alike, is dropped (it neither reaches the
\* socket nor is queued) and every receive poll returns no message; with
\* packet_loss at 0 the simulator never drops.
C20_TotalLoss ==
    /\ [][ (packet_loss = 100 /\ IsSend)
           => (wire' = wire /\ delayed_packets' = delayed_packets) ]_vars
    /\ [][ (packet_loss = 100 /\ IsPoll) => ret' = None ]_vars
    /\ [][ (packet_loss = 0 /\ (IsSend \/ IsPoll)) => ~call'.drop ]_vars

\* how often the Input of sequence q is in a sequence of datagrams, and
\* whether it is in the delay queue
Transmissions(socket, q) ==
    Cardinality({ i \in 1 .. Len(socket) :
                      socket[i].kind = "Input" /\ socket[i].input.sequence = q })
Queued(q) == \E i \in 1 .. Len(delayed_packets) : delayed_packets[i].sequence = q
NetSequences == 0 .. MaxNetInputs - 1

\* C21: an input handed to send_input while delay_ms > 0 and not dropped is
\* queued with its jittered delay instead of sent; a queued packet is not
\* transmitted before that delay has elapsed; and while the client keeps
\* polling it is eventually transmitted, exactly once: it is never both queued
\* and sent or sent twice, it leaves the queue only by being sent, and the
\* queue is empty again and again.
C21_DelayedThenSentOnce ==
    /\ [][ (call'.name = "send_input" /\ delay_ms > 0 /\ ~call'.drop)
           => /\ wire' = wire
              /\ Len(delayed_packets') = Len(delayed_packets) + 1
              /\ SubSeq(delayed_packets', 1, Len(delayed_packets)) = delayed_packets
              /\ LET e == delayed_packets'[Len(delayed_packets')]
                 IN  /\ e.data = call'.datagram
                     /\ e.send_time = instant_now
                     /\ e.delay >= delay_ms - 5 /\ e.delay <= delay_ms + 5 ]_vars
    /\ [][ \A i \in 1 .. Len(delayed_packets) :
               Transmissions(wire', delayed_packets[i].sequence)
                   > Transmissions(wire, delayed_packets[i].sequence)
               => instant_now - delayed_packets[i].send_time
                      >= delayed_packets[i].delay ]_vars
    /\ [](\A q \in NetSequences :
              Transmissions(wire, q) + (IF Queued(q) THEN 1 ELSE 0) <= 1)
    /\ [][ \A q \in NetSequences :
               (Queued(q) /\ ~Queued(q)') => Transmissions(wire', q) = 1 ]_vars
    /\ []<>(delayed_packets = << >>)

\* two queued inputs were transmitted by one poll, the later one first, the
\* earlier one later than its own delay required
C21_Witness ==
    /\ call.name \in {"try_receive_snapshot", "try_receive_message"}
    /\ delayed_packets = << >>
    /\ Len(wire) = 2
    /\ wire[1].input.sequence = 1
    /\ wire[2].input.sequence = 0

\* C22: a flush of the delay queue transmits every queued packet whose own
\* jittered delay has elapsed: when a receive poll, which runs
\* process_delayed_packets, has returned, no packet is left in delayed_packets
\* whose delay had elapsed at the time of the flush, wherever it stood in the
\* queue.
Elapsed(packet, instant) == instant - packet.send_time >= packet.delay

C22_FlushSendsEveryElapsed ==
    [][ IsPoll => \A i \in 1 .. Len(delayed_packets') :
                      ~Elapsed(delayed_packets'[i], instant_now) ]_vars

\* C25: build_snapshot is a pure read. The step of the Connect arm that builds
\* and sends the snapshot leaves the Game unchanged, and the step of the
\* broadcast task that evicts and builds leaves it as update_server_dropped
\* left it. The snapshot built lists exactly one (id, position, color) entry
\* for each live session, with pairwise distinct ids and the session's present
\* position, together with a copy of the present last_processed map; the
\* unwrap of the id lookup does not fail.
SnapshotEntry(a) ==
    [id |-> addr_to_id[a], position |-> players[a].position, color |-> players[a].color]

SnapshotOfGame(s) ==
    /\ Len(s.players) = Cardinality(DOMAIN players)
    /\ \A a \in DOMAIN players :
           \E j \in 1 .. Len(s.players) : s.players[j] = SnapshotEntry(a)
    /\ \A j, k \in 1 .. Len(s.players) : s.players[j].id = s.players[k].id => j = k
    /\ s.last_processed = last_processed

BuiltByReceive ==
    /\ lock = "receive"
    /\ tasks.receive.kind = "Connect"
    /\ tasks.receive.at = "unlock"

BuiltByBroadcast == lock = "broadcast" /\ tasks.broadcast.at = "send_to"

C25_SnapshotPureRead ==
    [][ /\ ~panicked'
        /\ tasks.receive.at = "send_state" => ~build_snapshot_panics(TheGame)
        /\ tasks.broadcast.at = "update_server_dropped"
               => ~build_snapshot_panics(update_server_dropped(TheGame, now))
        /\ (tasks.receive.at = "send_state" /\ BuiltByReceive')
               => /\ TheGame' = TheGame
                  /\ Len(sent') = Len(sent) + 1
                  /\ sent'[Len(sent')].msg.kind = "GameState"
                  /\ SnapshotOfGame(sent[Len(sent)].msg.state)'
        /\ (tasks.broadcast.at = "update_server_dropped" /\ BuiltByBroadcast')
               => /\ TheGame' = update_server_dropped(TheGame, now)
                  /\ tasks'.broadcast.game_state.kind = "GameState"
                  /\ SnapshotOfGame(tasks.broadcast.game_state.state)' ]_vars

\* the broadcast task has built the snapshot of two live sessions, one of
\* which has moved away from where it was spawned and has a last_processed
\* entry
C25_Witness ==
    /\ BuiltByBroadcast
    /\ Cardinality(DOMAIN players) = 2
    /\ Len(tasks.broadcast.active_players) = 2
    /\ Len(tasks.broadcast.game_state.state.players) = 2
    /\ \E a \in DOMAIN players :
           /\ addr_to_id[a] \in DOMAIN last_processed
           /\ players[a].position # players[a].position_history[1].position

\* C26: in every reachable state each live session's position history holds at
\* least 1 and at most 60 entries; an input applied to a session whose history
\* holds 60 entries evicts the oldest entry, and the new position becomes the
\* newest entry.
C26_HistoryBounded ==
    /\ [](\A a \in DOMAIN players :
              /\ Len(players[a].position_history) >= 1
              /\ Len(players[a].position_history) <= 60)
    /\ [][ (/\ call'.name = "handle_input"
            /\ call'.addr \in DOMAIN players
            /\ Len(players[call'.addr].position_history) = 60)
           => LET old == players[call'.addr].position_history
                  new == players'[call'.addr].position_history
              IN  /\ Len(new) = 60
                  /\ SubSeq(new, 1, 59) = Tail(old)
                  /\ new[60].position = players'[call'.addr].position
                  /\ new[60].position = ServerMove(players[call'.addr].position,
                                                   call'.input.dir) ]_vars

\* the 61st input and later ones of a session that is still moving: the
\* history holds 60 entries and no longer the position the session was spawned at
C26_Witness ==
    /\ call.name = "handle_input"
    /\ call.addr \in DOMAIN players
    /\ call.input.sequence >= 60
    /\ Len(players[call.addr].position_history) = 60
    /\ players[call.addr].position_history[59].position
           # players[call.addr].position_history[60].position
    /\ \A i \in 1 .. 60 : players[call.addr].position_history[i].position.x > PLAYER_SIZE

\* C27: the delay queue is drained on every send and on every receive poll:
\* when send_input, try_receive_snapshot or try_receive_message returns, every
\* packet that was queued and whose delay had elapsed has been transmitted.
C27_DrainedOnSendAndPoll ==
    [][ (call'.name = "send_input" \/ IsPoll)
        => \A i \in 1 .. Len(delayed_packets) :
               Elapsed(delayed_packets[i], instant_now)
               => Transmissions(wire', delayed_packets[i].sequence)
                      > Transmissions(wire, delayed_packets[i].sequence) ]_vars

\* C28: when the inbound drop fires on a receive poll while a datagram is
\* waiting at the client's socket, that datagram is lost: it is no longer
\* waiting at the socket, so that no later poll returns it.
C28_InboundDropLoses ==
    [][ (IsPoll /\ call'.drop /\ inbox # << >>) => inbox' = Tail(inbox) ]_vars

(* ------------------- properties of the server's tasks -------------------- *)

\* C29: the server never performs socket I/O while holding the lock on the
\* Game: whenever the receive loop or the broadcast task performs a send_to
\* (PlayerId, snapshot, Pong, broadcast), it does not hold the lock.
ServerTasks == {"receive", "broadcast"}
SendLocations == {"send_id", "send_state", "send_pong", "send_to"}
Sends(t) ==
    /\ tasks[t].at \in SendLocations
    /\ tasks'[t] # tasks[t]
    /\ sent' # << >>

C29_NoSendUnderLock ==
    [][ \A t \in ServerTasks : (Sends(t) /\ call'.name = "send_to") => lock # t ]_vars

\* C30: each broadcast tick first evicts the timed-out sessions and then sends
\* one snapshot to exactly the addresses that have a live session at that
\* tick: each of them is sent it once, and an address without a live session,
\* in particular one evicted at this tick or earlier and not connected again,
\* is sent nothing. With the round followed across its send_to(..).await:
\* the eviction comes before the first send, the sessions stay as the eviction
\* left them while the round sends, every datagram of the round goes to a live
\* address, and when the round ends each live address has been sent the one
\* snapshot once.
SentTo(a) == { i \in 1 .. Len(sent) : sent[i].to = a }

C30_BroadcastToLive ==
    [][ /\ (tasks.broadcast.at = "update_server_dropped" /\ tasks'.broadcast.at = "send_to")
               => /\ TheGame' = update_server_dropped(TheGame, now)
                  /\ TimedOut(TheGame, now) \cap DOMAIN players' = {}
                  /\ sent' = << >>
        /\ (lock = "broadcast" /\ tasks.broadcast.at = "send_to")
               => /\ TheGame' = TheGame
                  /\ \A i \in 1 .. Len(sent') :
                         /\ sent'[i].to \in DOMAIN players
                         /\ sent'[i].msg = tasks.broadcast.game_state
        /\ (lock = "broadcast" /\ lock' = NoTask)
               => /\ \A a \in DOMAIN players : Cardinality(SentTo(a)) = 1
                  /\ \A a \in Addrs \ DOMAIN players : SentTo(a) = {}
                  /\ Len(sent) = Cardinality(DOMAIN players)
                  /\ \A i \in 1 .. Len(sent) :
                         /\ sent[i].msg.kind = "GameState"
                         /\ sent[i].msg = sent[1].msg ]_vars

\* a round of the broadcast task has ended that evicted one session and sent
\* the snapshot to the other, which stayed live, while a datagram received
\* meanwhile waits for the lock
C30_Witness ==
    /\ call = Call("unlock", NoAddr, NoInput)
    /\ lock = NoTask
    /\ tasks.receive.at = "lock"
    /\ \E a \in Addrs : a \notin DOMAIN players /\ removed[a].id # NoId
    /\ Len(sent) = 1
    /\ sent[1].to \in DOMAIN players
    /\ sent[1].msg.kind = "GameState"

(* -------------------- properties of the later claims --------------------- *)

\* C31: the timestamp stored with a position-history entry is the server's
\* clock reading at the moment the entry is appended: within one session's
\* history timestamps never decrease from oldest to newest, and an entry
\* appended at a later clock reading than the entry before it (last_active is
\* the reading of the session's previous append) carries a larger timestamp.
LastOf(seq) == seq[Len(seq)]

C31_TimestampIsClock ==
    /\ [](\A a \in DOMAIN players :
              \A i, j \in 1 .. Len(players[a].position_history) :
                  i <= j => players[a].position_history[i].timestamp
                                <= players[a].position_history[j].timestamp)
    /\ [][ (/\ call'.name = "handle_input"
            /\ call'.addr \in DOMAIN players
            /\ now > players[call'.addr].last_active)
           => LastOf(players'[call'.addr].position_history).timestamp
                  > LastOf(players[call'.addr].position_history).timestamp ]_vars

\* C32: in every client state reachable through handle_input, reconcile and
\* reapply_pending_inputs the predicted-position history is parallel to the
\* pending queue: one entry per pending input, with the same sequence numbers
\* in the same order, and none with a sequence that has been confirmed (a
\* last_confirmed_sequence of 0 is also the value before any confirmation, so
\* input 0 is then not counted as confirmed); reapply_pending_inputs adds no
\* entry to it.
Confirmed(sequence) == last_confirmed_sequence > 0 /\ sequence <= last_confirmed_sequence

C32_HistoryParallel ==
    /\ [](/\ Len(position_history) = Len(pending_inputs)
          /\ \A i \in 1 .. Len(position_history) :
                 /\ i <= Len(pending_inputs)
                        => position_history[i].sequence = pending_inputs[i].sequence
                 /\ ~Confirmed(position_history[i].sequence))
    /\ [][ call'.name = "reapply_pending_inputs"
           => Len(position_history') <= Len(position_history) ]_vars

\* C33: the client's prediction buffers are bounded: there is a fixed capacity
\* that the lengths of pending_inputs and of position_history never exceed,
\* whatever inputs, snapshots and losses occur. Stated for the greatest
\* capacity that the inputs followed here can exceed, one less than the number
\* of inputs the client issues; every smaller capacity is exceeded before.
PredictionCapacity == MaxBurst - 1

C33_BuffersBounded ==
    /\ Len(pending_inputs) <= PredictionCapacity
    /\ Len(position_history) <= PredictionCapacity

\* C34: client sequence numbers are never reused and inputs are replayed in
\* ascending order. next_sequence never decreases, every input is issued under
\* the present next_sequence, which is then greater, so that next_sequence is
\* greater than the sequence of every input issued; in every state
\* pending_inputs is strictly increasing in sequence from front to back and
\* below next_sequence; and the entries a replay appends to the predicted
\* history are those of pending_inputs in that order.
C34_SequencesAscend ==
    /\ [](\A i \in 1 .. Len(pending_inputs) :
              /\ pending_inputs[i].sequence < next_sequence
              /\ pending_inputs[i].input.sequence = pending_inputs[i].sequence
              /\ i > 1 => pending_inputs[i - 1].sequence < pending_inputs[i].sequence)
    /\ [][ next_sequence' >= next_sequence ]_vars
    /\ [][ call'.name = "frame_input"
           => /\ call'.input.sequence = next_sequence
              /\ next_sequence' > call'.input.sequence
              /\ LastOf(pending_inputs').sequence = call'.input.sequence ]_vars
    /\ [][ call'.name = "frame_snapshot"
           => LET n == Len(pending_inputs')
                  k == Len(position_history') - n
              IN  /\ k >= 0
                  /\ \A i \in 1 .. n :
                         position_history'[k + i].sequence = pending_inputs'[i].sequence ]_vars

\* a snapshot that acknowledged input 1 was followed by the replay of three
\* or more pending inputs
C34_Witness ==
    /\ call.name = "frame_snapshot"
    /\ last_confirmed_sequence = 1
    /\ Len(pending_inputs) >= 3
    /\ pending_inputs[1].sequence = 2
    /\ Len(position_history) >= Len(pending_inputs)

\* C35: the server's index tables stay consistent in every state reachable
\* through connect_player, handle_input, disconnect_player and
\* update_server_dropped: players and addr_to_id have the same addresses,
\* id_to_addr is exactly the inverse of addr_to_id, and every key of
\* last_processed is the id of a live session; hence no unwrap of
\* connect_player or build_snapshot fails.
LiveIds == { addr_to_id[a] : a \in DOMAIN addr_to_id }

C35_IndexTablesConsistent ==
    /\ DOMAIN players = DOMAIN addr_to_id
    /\ DOMAIN id_to_addr = LiveIds
    /\ \A a \in DOMAIN addr_to_id : id_to_addr[addr_to_id[a]] = a
    /\ \A i \in DOMAIN id_to_addr :
           id_to_addr[i] \in DOMAIN addr_to_id /\ addr_to_id[id_to_addr[i]] = i
    /\ DOMAIN last_processed \subseteq LiveIds
    /\ ~panicked
    /\ ~build_snapshot_panics(TheGame)

\* a session that had received inputs was removed while another one, which
\* has received inputs too, stayed
C35_Witness ==
    /\ call.name \in {"disconnect_player", "update_server_dropped"}
    /\ \E a \in call.live : a \notin DOMAIN players /\ removed[a].id # NoId
    /\ Cardinality(DOMAIN players) = 1
    /\ DOMAIN last_processed = LiveIds
    /\ Cardinality(issued) = 2

\* C36: once the client has stopped issuing inputs, every input in flight has
\* reached the server, the receive loop has finished with it, and the client
\* has taken a snapshot built after that,
\* the position the client displays for its own entity is the server's
\* position of it
C36_ConvergesToServer ==
    (/\ call.name = "converge_snapshot"
     /\ wire = << >>
     /\ tasks.receive.at = "recv_from"
     /\ SnapshotOfGame(call.state))
        => my_pos = players[MoveAddr].position

\* C37: while a session is live, the last_processed entry of its id never
\* decreases, whatever the order in which the session's inputs reach
\* handle_input
C37_LastProcessedMonotone ==
    [][ \A a \in DOMAIN addr_to_id :
            LET id == addr_to_id[a]
            IN  (/\ a \in DOMAIN addr_to_id' /\ addr_to_id'[a] = id
                 /\ id \in DOMAIN last_processed
                 /\ id \in DOMAIN last_processed')
                    => last_processed'[id] >= last_processed[id] ]_vars

\* C38: when the client has handled the PlayerId datagram of the session the
\* server holds for the client's address, the id the client holds is the id
\* of that session, also when an earlier session of the address was evicted
C38_ClientIdIsServerId ==
    (/\ call.name = "try_receive_message"
     /\ MoveAddr \in DOMAIN addr_to_id
     /\ call.id = addr_to_id[MoveAddr])
        => my_id = addr_to_id[MoveAddr]

\* the samples held are all older than the time the frame interpolates at
Settled ==
    LET h == interpolation.position_history
    IN  Len(h) >= 2 =>
            LastOf(h).timestamp <= F32Round(frame_time - interpolation.interpolation_delay)

\* C39: once the remote player has stopped, all its inputs have reached the
\* server in whatever order, and a snapshot taken after that has been drawn at
\* a time past every sample, the position drawn for the remote player is the
\* server's position of it
C39_RemoteDrawnAtServerPosition ==
    (call.name = "snapshot_frame" /\ wire = << >> /\ Settled
     /\ SnapshotOfGame(call.state))
        => ret = Some(players[RemoteAddr].position)

\* the number of PlayerId datagrams in queue q
PlayerIdsIn(q) == Len(SelectSeq(q, LAMBDA d : d.kind = "PlayerId"))

\* C40: a PlayerId datagram leaves the client's receive queue only by being
\* handled: when one is read while the client holds no id, whichever poll
\* reads it and whatever precedes it in the queue, the client holds an id
\* afterwards
C40_PlayerIdHandled ==
    [][ (/\ call'.name = "polls"
         /\ my_id = NoId
         /\ PlayerIdsIn(inbox') < PlayerIdsIn(inbox) + PlayerIdsIn(call'.between))
            => my_id' # NoId ]_vars

============================================================================
